---- MODULE Spec2Model ----
(***************************************************************************)
(* Model of the structural-variant event caller of mavis                   *)
(* (src/mavis/validate/call.py): the EventCall constructor and             *)
(* call_events with its four resolvers (contig, spanning read, split read, *)
(* flanking pair).                                                         *)
(*                                                                         *)
(* Reads are records with a unique id (python compares reads by identity). *)
(* Positions are 1-based closed coordinates: start1 = reference_start + 1, *)
(* end = reference_end.                                                    *)
(***************************************************************************)
EXTENDS Integers, Sequences, FiniteSets, TLC

VARIABLES
    ev,        \* the Evidence object handed to call_events (aliased, mutable)
    ev0,       \* the Evidence as it was when call_events was entered
    pc,        \* position inside call_events
    consumed,  \* consumed_evidence of call_events
    calls,     \* the list `calls` of call_events
    errors,    \* the set `errors` of call_events
    todo,      \* event types still to be visited by the loop of line 569
    result,    \* outcome of call_events
    req,       \* arguments of one EventCall(...) construction
    made,      \* outcome of that construction
    asm        \* one run of assemble(...): its arguments, locals and outcome

vars == <<ev, ev0, pc, consumed, calls, errors, todo, result, req, made, asm>>

-----------------------------------------------------------------------------
(* constants.py: SVTYPE, ORIENT, STRAND, CALL_METHOD *)

DEL == "DEL"
DUP == "DUP"
INS == "INS"
INV == "INV"
ITRANS == "ITRANS"
TRANS == "TRANS"
SVTYPE == {DEL, DUP, INS, INV, ITRANS, TRANS}
None == "None"

LEFT == "L"
RIGHT == "R"
NS == "?"
ORIENT == {LEFT, RIGHT, NS}

POS == "+"
NEG == "-"

CONTIG == "CONTIG"
SPAN == "SPAN"
SPLIT == "SPLIT"
FLANK == "FLANK"
CALL_METHOD == {CONTIG, SPAN, SPLIT, FLANK}

NoContig == None

Min2(a, b) == IF a <= b THEN a ELSE b
Max2(a, b) == IF a >= b THEN a ELSE b
SetMin(S) == CHOOSE x \in S : \A y \in S : x <= y
SetMax(S) == CHOOSE x \in S : \A y \in S : x >= y
Abs(x) == IF x < 0 THEN -x ELSE x

\* sorted(): python orders the SVTYPE strings alphabetically
TypeRank(t) ==
    CASE t = DEL -> 1 [] t = DUP -> 2 [] t = INS -> 3
      [] t = INV -> 4 [] t = ITRANS -> 5 [] t = TRANS -> 6

RECURSIVE SortedTypes_descending(_)
SortedTypes_descending(S) ==
    IF S = {} THEN <<>>
    ELSE LET m == CHOOSE t \in S : \A u \in S : TypeRank(t) >= TypeRank(u)
         IN <<m>> \o SortedTypes_descending(S \ {m})

RECURSIVE SortedTypes(_)
SortedTypes(S) ==
    IF S = {} THEN <<>>
    ELSE LET m == CHOOSE t \in S : \A u \in S : TypeRank(t) <= TypeRank(u)
         IN <<m>> \o SortedTypes(S \ {m})

-----------------------------------------------------------------------------
(* Interval, Breakpoint, BreakpointPair *)

Interval(s, e) == [start |-> s, end |-> e]
Overlaps(a, b) == ~(a.end < b.start \/ b.end < a.start)
IntervalLen(a) == a.end - a.start + 1
\* Interval.dist(a, b): the size of the gap between them, 0 when they overlap
IntervalDist(a, b) ==
    IF a.end < b.start THEN b.start - a.end
    ELSE IF b.end < a.start THEN a.start - b.end
    ELSE 0
IntervalUnion(a, b) == Interval(Min2(a.start, b.start), Max2(a.end, b.end))

Breakpoint(chr, s, e, orient, strand) ==
    [chr |-> chr, start |-> s, end |-> e, orient |-> orient, strand |-> strand]

BreakKeyGreater(b1, b2) ==
    \/ b1.chr > b2.chr
    \/ b1.chr = b2.chr /\ b1.start > b2.start
    \/ b1.chr = b2.chr /\ b1.start = b2.start /\ b1.end > b2.end

\* BreakpointPair.__init__: break1 <= break2 is restored on construction
OrderedBreaks(b1, b2) == IF BreakKeyGreater(b1, b2) THEN <<b2, b1>> ELSE <<b1, b2>>

Interchromosomal(b1, b2) == b1.chr # b2.chr

\* the orientations an unspecified orientation may stand for
Concrete(o) == IF o = NS THEN {LEFT, RIGHT} ELSE {o}

ClassifyConcrete(o1, o2, inter) ==
    IF inter
    THEN (IF o1 = o2 THEN {ITRANS} ELSE {TRANS})
    ELSE IF o1 = LEFT /\ o2 = RIGHT THEN {DEL, INS}
    ELSE IF o1 = RIGHT /\ o2 = LEFT THEN {DUP}
    ELSE {INV}

\* BreakpointPair.classify: the table of orientation geometry
classify(b1, b2) ==
    UNION {ClassifyConcrete(o1, o2, Interchromosomal(b1, b2)) :
              o1 \in Concrete(b1.orient), o2 \in Concrete(b2.orient)}

-----------------------------------------------------------------------------
(* EventCall.__init__ *)

\* lines 60-65
CompatibleType_dup_only(event_type) ==
    IF event_type = DUP THEN INS ELSE None
CompatibleType(event_type) ==
    IF event_type = DUP THEN INS
    ELSE IF event_type = INS THEN DUP
    ELSE None

\* line 66: the guard of the swap
NeedsSwap(event_type, compatible_type, cls) ==
    event_type \notin cls /\ compatible_type \in cls

\* line 67: event_type, self.compatible_type = self.compatible_type, event_type
SwapTypes_one_way(tc) == <<tc[2], tc[2]>>
SwapTypes(tc) == <<tc[2], tc[1]>>

\* line 69 (negated): the check that lets the construction through
TypeAccepted_unchecked(event_type, compatible_type, cls) == TRUE
TypeAccepted(event_type, compatible_type, cls) ==
    event_type \in (cls \cup {compatible_type})

\* lines 50-52: strands are dropped when the bam cache is not stranded
CallStrand(b, bam_stranded) == IF bam_stranded THEN b.strand ELSE NS

EventCall(b1, b2, source_evidence, event_type, call_method, contig, untemplated_seq) ==
    LET ob == OrderedBreaks(b1, b2)
        nb1 == [ob[1] EXCEPT !.strand = CallStrand(ob[1], source_evidence.bam_stranded)]
        nb2 == [ob[2] EXCEPT !.strand = CallStrand(ob[2], source_evidence.bam_stranded)]
        cls == classify(nb1, nb2)
        tc0 == <<event_type, CompatibleType(event_type)>>
        tc == IF NeedsSwap(tc0[1], tc0[2], cls) THEN SwapTypes(tc0) ELSE tc0
        failure ==
            IF ~TypeAccepted(tc[1], tc[2], cls)
            THEN "event_type is not compatible with the breakpoint call"
            ELSE IF contig # NoContig /\ call_method # CONTIG
            THEN "if a contig is given the call method must be by contig"
            ELSE ""
    IN [ok |-> failure = "",
        error |-> failure,
        break1 |-> nb1,
        break2 |-> nb2,
        stranded |-> source_evidence.stranded /\ source_evidence.bam_stranded,
        untemplated_seq |-> untemplated_seq,
        event_type |-> tc[1],
        compatible_type |-> tc[2],
        call_method |-> call_method,
        contig |-> contig,
        spanning_reads |-> {},
        flanking_pairs |-> {},
        break1_split_reads |-> {},
        break2_split_reads |-> {},
        compatible_flanking_pairs |-> {}]

\* lines 22-24
has_compatible(call) == call.compatible_type # None

-----------------------------------------------------------------------------
(* Reads.  A read is the record                                            *)
(*   id, query_name, query_sequence, chr, start1, end : the alignment      *)
(*   clip   : the orientation breakpoint_pos accepts (None: not clipped)   *)
(*   tgt    : the targeted-alignment tag                                   *)
(*   frag   : compute_fragment_size(read, mate), an Interval               *)
(*   otypes : the event types orientation_supports_type(read, t) accepts   *)
(*   pev    : what call_paired_read_event gives with its double alignment  *)
(*   events : call_read_events(read)                                       *)

\* tests/test_read_tools.py: a read clipped on its right end gives its last
\* aligned base for LEFT and fails for RIGHT, and the reverse; +1 as in call.py
breakpoint_pos1(read, orient) ==
    IF read.clip = None \/ orient \notin {read.clip, NS} THEN {}
    ELSE IF read.clip = LEFT THEN {read.end}
    ELSE {read.start1}

compute_fragment_size(read, mate) == read.frag

orientation_supports_type(read, event_type) == event_type \in read.otypes

call_read_events(read) == read.events

\* fails (AssertionError) unless the two reads are alignments of one sequence
call_paired_read_event(read1, read2) ==
    IF read1.pev = read2.pev THEN read1.pev ELSE {}

Complement(c) ==
    CASE c = "A" -> "T" [] c = "T" -> "A" [] c = "C" -> "G" [] c = "G" -> "C"
      [] OTHER -> c

reverse_complement(seq) ==
    [i \in 1..Len(seq) |-> Complement(seq[Len(seq) + 1 - i])]

-----------------------------------------------------------------------------
(* EventCall methods *)

PairReads(pairs) == {p[1] : p \in pairs} \cup {p[2] : p \in pairs}

ContigById(evidence, id) ==
    LET i == CHOOSE i \in 1..Len(evidence.contigs) : evidence.contigs[i].id = id
    IN evidence.contigs[i]

\* lines 89-100
support(call, evidence) ==
    call.spanning_reads
        \cup PairReads(call.flanking_pairs \cup call.compatible_flanking_pairs)
        \cup call.break1_split_reads
        \cup call.break2_split_reads
        \cup (IF call.contig # NoContig
              THEN ContigById(evidence, call.contig).input_reads ELSE {})

FragmentSizeOk_no_minimum(call, evidence, pair) ==
    LET fragment_size == compute_fragment_size(pair[1], pair[2])
        max_frag == IntervalLen(IntervalUnion(call.break1, call.break2))
                        + evidence.max_expected_fragment_size
    IN IF call.event_type = DEL
       THEN ~(fragment_size.start > max_frag)
       ELSE IF call.event_type = INS
       THEN ~(fragment_size.start >= evidence.min_expected_fragment_size)
       ELSE TRUE

\* lines 139-144: the fragment size test
FragmentSizeOk(call, evidence, pair) ==
    LET fragment_size == compute_fragment_size(pair[1], pair[2])
        min_frag == Max2(evidence.min_expected_fragment_size
                             + IntervalDist(call.break1, call.break2),
                         evidence.max_expected_fragment_size)
        max_frag == IntervalLen(IntervalUnion(call.break1, call.break2))
                        + evidence.max_expected_fragment_size
    IN IF call.event_type = DEL
       THEN ~(fragment_size.end < min_frag \/ fragment_size.start > max_frag)
       ELSE IF call.event_type = INS
       THEN ~(fragment_size.start >= evidence.min_expected_fragment_size)
       ELSE TRUE

PositionsOk_never_inverted(call, pair, is_compatible) ==
    LET read == pair[1]
        mate == pair[2]
        inter == Interchromosomal(call.break1, call.break2)
    IN IF call.break1.orient = LEFT
       THEN IF call.break2.orient = LEFT
            THEN /\ read.start1 <= call.break1.end
                 /\ mate.start1 <= call.break2.end
                 /\ (mate.end > call.break1.start \/ inter)
            ELSE /\ read.start1 <= call.break1.end
                 /\ mate.end >= call.break2.start
       ELSE IF call.break2.orient = LEFT
            THEN /\ read.end >= call.break1.start
                 /\ mate.start1 <= call.break2.end
            ELSE /\ read.end >= call.break1.start
                 /\ mate.end >= call.break2.start
                 /\ (read.end < call.break2.end \/ inter)

\* lines 152-180: the position test of the quadrant
PositionsOk(call, pair, is_compatible) ==
    LET read == pair[1]
        mate == pair[2]
        left == IF ~is_compatible THEN LEFT ELSE RIGHT
        inter == Interchromosomal(call.break1, call.break2)
    IN IF call.break1.orient = left
       THEN IF call.break2.orient = left
            THEN /\ read.start1 <= call.break1.end
                 /\ mate.start1 <= call.break2.end
                 /\ (mate.end > call.break1.start \/ inter)
            ELSE /\ read.start1 <= call.break1.end
                 /\ mate.end >= call.break2.start
       ELSE IF call.break2.orient = left
            THEN /\ read.end >= call.break1.start
                 /\ mate.start1 <= call.break2.end
            ELSE /\ read.end >= call.break1.start
                 /\ mate.end >= call.break2.start
                 /\ (read.end < call.break2.end \/ inter)

\* lines 136-180: the pairs add_flanking_support lets through
SupportingPairs(call, evidence, flanking_pairs, is_compatible) ==
    {pair \in flanking_pairs :
        /\ FragmentSizeOk(call, evidence, pair)
        /\ Interchromosomal(call.break1, call.break2) = (pair[1].chr # pair[2].chr)
        /\ orientation_supports_type(
               pair[1], IF ~is_compatible THEN call.event_type ELSE call.compatible_type)
        /\ PositionsOk(call, pair, is_compatible)}

\* lines 118-184
add_flanking_support(call, evidence, flanking_pairs, is_compatible) ==
    LET ok == SupportingPairs(call, evidence, flanking_pairs, is_compatible)
    IN IF is_compatible
       THEN [call EXCEPT !.compatible_flanking_pairs = @ \cup ok]
       ELSE [call EXCEPT !.flanking_pairs = @ \cup ok]

\* lines 186-196
add_break1_split_reads(call, reads) ==
    [call EXCEPT !.break1_split_reads = @ \cup
        {r \in reads : \E pos \in breakpoint_pos1(r, call.break1.orient) :
                          Overlaps(Interval(pos, pos), call.break1)}]

\* lines 198-208
add_break2_split_reads(call, reads) ==
    [call EXCEPT !.break2_split_reads = @ \cup
        {r \in reads : \E pos \in breakpoint_pos1(r, call.break2.orient) :
                          Overlaps(Interval(pos, pos), call.break2)}]

\* BreakpointPair.__eq__ of a read's event and a call
SameEvent(event, call) ==
    /\ event.break1.chr = call.break1.chr
    /\ event.break1.start = call.break1.start
    /\ event.break1.end = call.break1.end
    /\ event.break1.orient = call.break1.orient
    /\ event.break2.chr = call.break2.chr
    /\ event.break2.start = call.break2.start
    /\ event.break2.end = call.break2.end
    /\ event.break2.orient = call.break2.orient
    /\ event.untemplated_seq = call.untemplated_seq

\* lines 210-217
add_spanning_reads(call, reads) ==
    [call EXCEPT !.spanning_reads = @ \cup
        {r \in reads : \E event \in call_read_events(r) :
            /\ SameEvent(event, call)
            /\ call.event_type \in classify(event.break1, event.break2)}]

\* lines 472-496
filter_consumed_pairs(pairs, consumed_reads) ==
    {p \in pairs : p[1] \notin consumed_reads /\ p[2] \notin consumed_reads}

-----------------------------------------------------------------------------
(* Evidence methods (genome evidence) *)

distance(start, end) == Interval(Abs(end - start), Abs(end - start))

traverse(pos, dist, direction) ==
    IF direction = LEFT THEN Interval(pos - dist, pos - dist)
    ELSE Interval(pos + dist, pos + dist)

decide_sequenced_strand(reads) == POS

putative_event_types(evidence) == classify(evidence.break1, evidence.break2)

-----------------------------------------------------------------------------
(* Orders of iteration.  A python set or dict is visited in an order the    *)
(* program does not fix, so a list built from one may come out in any order *)

Orderings(S) ==
    {f \in [1..Cardinality(S) -> S] : \A i, j \in 1..Cardinality(S) : f[i] = f[j] => i = j}

RECURSIVE Linearizations(_)
\* the lists made of an ordering of groups[1], then one of groups[2], ...
Linearizations(groups) ==
    IF groups = <<>> THEN {<<>>}
    ELSE {h \o t : h \in Orderings(Head(groups)), t \in Linearizations(Tail(groups))}

RECURSIVE UnionOfSupport(_, _)
UnionOfSupport(callseq, evidence) ==
    IF callseq = <<>> THEN {}
    ELSE support(Head(callseq), evidence) \cup UnionOfSupport(Tail(callseq), evidence)

SeqToSet(q) == {q[i] : i \in 1..Len(q)}

-----------------------------------------------------------------------------
(* _call_by_contigs, lines 436-469 *)

\* line 441
SkippedAlignment_any_indel(aln) == aln.is_putative_indel
SkippedAlignment(aln) == aln.is_putative_indel /\ aln.net_size_zero

\* lines 444-466: the call of one contig alignment and one event type
ContigCall(source_evidence, ctg, aln, event_type) ==
    LET c0 == EventCall(aln.break1, aln.break2, source_evidence, event_type,
                        CONTIG, ctg.id, aln.untemplated_seq)
        c1 == add_flanking_support(c0, source_evidence, source_evidence.flanking_pairs, FALSE)
        c2 == IF has_compatible(c1)
              THEN add_flanking_support(c1, source_evidence,
                                        source_evidence.compatible_flanking_pairs, TRUE)
              ELSE c1
        c3 == add_spanning_reads(c2, source_evidence.spanning_reads)
        c4 == add_break1_split_reads(c3, source_evidence.split_reads[1])
    IN add_break2_split_reads(c4, source_evidence.split_reads[2])

\* the (contig, alignment) pairs in the order of the two loops
RECURSIVE ContigAlignments(_, _, _)
ContigAlignments(contigs, i, j) ==
    IF i > Len(contigs) THEN <<>>
    ELSE IF j > Len(contigs[i].alignments) THEN ContigAlignments(contigs, i + 1, 1)
    ELSE <<[ctg |-> contigs[i], aln |-> contigs[i].alignments[j], i |-> i, j |-> j]>>
             \o ContigAlignments(contigs, i, j + 1)

\* the calls of each alignment; the event types of one alignment come from a set
call_by_contigs(source_evidence) ==
    LET cas == ContigAlignments(source_evidence.contigs, 1, 1)
    IN [k \in 1..Len(cas) |->
           IF SkippedAlignment(cas[k].aln) THEN {}
           ELSE {ContigCall(source_evidence, cas[k].ctg, cas[k].aln, t) :
                    t \in classify(cas[k].aln.break1, cas[k].aln.break2)}]

\* BreakpointPair.__init__ keeps the Breakpoint objects it is given (no copy), so
\* lines 50-52 write the strand of the alignment's own breakpoints
breakpoints_by_reference == TRUE

AlignmentAfterCall(aln, source_evidence) ==
    IF breakpoints_by_reference /\ ~SkippedAlignment(aln)
          /\ classify(aln.break1, aln.break2) # {}
    THEN [aln EXCEPT !.break1.strand = CallStrand(aln.break1, source_evidence.bam_stranded),
                     !.break2.strand = CallStrand(aln.break2, source_evidence.bam_stranded)]
    ELSE aln

EvidenceAfterContigCalls(source_evidence) ==
    [source_evidence EXCEPT !.contigs =
        [i \in 1..Len(source_evidence.contigs) |->
            [source_evidence.contigs[i] EXCEPT !.alignments =
                [j \in 1..Len(source_evidence.contigs[i].alignments) |->
                    AlignmentAfterCall(source_evidence.contigs[i].alignments[j],
                                       source_evidence)]]]]

-----------------------------------------------------------------------------
(* _call_by_spanning_reads, lines 499-540 *)

EventKey(event) ==
    [break1 |-> event.break1, break2 |-> event.break2,
     untemplated_seq |-> event.untemplated_seq,
     opposing_strands |-> event.opposing_strands]

\* lines 503-506: the dict spanning_calls, as the set of its keys ...
SpanningEvents(source_evidence, consumed_evidence) ==
    {EventKey(e) : e \in
        {e \in UNION {call_read_events(r) :
                         r \in source_evidence.spanning_reads \ consumed_evidence} :
            e.qc >= source_evidence.contig_aln_min_query_consumption}}

\* ... and the reads of one key
SpanningReadsOf(source_evidence, consumed_evidence, key) ==
    {r \in source_evidence.spanning_reads \ consumed_evidence :
        \E e \in call_read_events(r) :
            /\ e.qc >= source_evidence.contig_aln_min_query_consumption
            /\ EventKey(e) = key}

\* lines 509-513
SpanningGroupKept_above(source_evidence, key, reads) ==
    ~(\/ Cardinality(reads) <= source_evidence.min_spanning_reads_resolution
      \/ source_evidence.opposing_strands # key.opposing_strands)
SpanningGroupKept(source_evidence, key, reads) ==
    ~(\/ Cardinality(reads) < source_evidence.min_spanning_reads_resolution
      \/ source_evidence.opposing_strands # key.opposing_strands)

\* lines 516-518
SpanStrand(b, source_evidence) ==
    IF ~source_evidence.stranded THEN [b EXCEPT !.strand = NS] ELSE b

\* lines 520-537
SpanningCall(source_evidence, consumed_evidence, key, reads, event_type) ==
    LET available_flanking_pairs ==
            filter_consumed_pairs(source_evidence.flanking_pairs, consumed_evidence)
        c0 == EventCall(SpanStrand(key.break1, source_evidence),
                        SpanStrand(key.break2, source_evidence),
                        source_evidence, event_type, SPAN, NoContig, key.untemplated_seq)
        c1 == [c0 EXCEPT !.spanning_reads = @ \cup reads]
        c2 == add_flanking_support(c1, source_evidence, available_flanking_pairs, FALSE)
        c3 == IF has_compatible(c2)
              THEN add_flanking_support(c2, source_evidence, available_flanking_pairs, TRUE)
              ELSE c2
        c4 == add_break1_split_reads(c3, source_evidence.split_reads[1] \ consumed_evidence)
    IN add_break2_split_reads(c4, source_evidence.split_reads[2] \ consumed_evidence)

\* the calls as a set: both the dict and the set of event types are unordered
call_by_spanning_reads(source_evidence, consumed_evidence) ==
    UNION {
        LET reads == SpanningReadsOf(source_evidence, consumed_evidence, key)
        IN IF ~SpanningGroupKept(source_evidence, key, reads) THEN {}
           ELSE {SpanningCall(source_evidence, consumed_evidence, key, reads, t) :
                    t \in classify(source_evidence.break1, source_evidence.break2)
                              \cap classify(key.break1, key.break2)}
        : key \in SpanningEvents(source_evidence, consumed_evidence)}

-----------------------------------------------------------------------------
(* Outcomes of a resolver: a value, an AssertionError or UserWarning (the   *)
(* recoverable failures), or a ValueError                                   *)

NoInterval == Interval(0, 0)

\* str(err) of a failure: the message, and the arguments it is formatted with
Diagnostic(msg, event_type, a, b) ==
    [msg |-> msg, event_type |-> event_type, a |-> a, b |-> b]

Raised(kind, diag) == [kind |-> kind, diag |-> diag]

-----------------------------------------------------------------------------
(* _call_interval_by_flanking_coverage, lines 585-607 *)

call_interval_by_flanking_coverage(coverage, orientation, max_expected_fragment_size, read_length) ==
    LET coverage_d == distance(coverage.start, coverage.end).start + 1
        max_interval == max_expected_fragment_size - read_length
    IN IF max_expected_fragment_size <= 0 \/ read_length <= 0
       THEN Raised("ValueError",
                   Diagnostic("max_expected_fragment_size and read_length must be positive integers",
                              None, NoInterval, NoInterval))
       ELSE IF coverage_d > max_interval
       THEN Raised("AssertionError",
                   Diagnostic("length of the coverage interval is greater than the maximum expected",
                              None, Interval(coverage_d, max_interval), NoInterval))
       ELSE IF orientation = LEFT
       THEN [kind |-> "ok",
             window |-> Interval(coverage.end,
                                 traverse(coverage.end, max_interval - coverage_d, RIGHT).end)]
       ELSE IF orientation = RIGHT
       THEN [kind |-> "ok",
             window |-> Interval(Max2(1, traverse(coverage.start, max_interval - coverage_d,
                                                  LEFT).start),
                                 coverage.start)]
       ELSE Raised("ValueError",
                   Diagnostic("orientation must be specific", None, NoInterval, NoInterval))

-----------------------------------------------------------------------------
(* _call_by_flanking_pairs, lines 610-748 *)

\* lines 634-647: the pairs that pass the fragment size filter
FlankingCandidates_unfiltered(evidence, event_type, consumed_evidence) ==
    filter_consumed_pairs(evidence.flanking_pairs, consumed_evidence)

FlankingCandidates(evidence, event_type, consumed_evidence) ==
    {p \in filter_consumed_pairs(evidence.flanking_pairs, consumed_evidence) :
        LET fragment_size == compute_fragment_size(p[1], p[2])
        IN IF event_type = DEL
           THEN ~(fragment_size.end <= evidence.max_expected_fragment_size)
           ELSE IF event_type = INS
           THEN ~(fragment_size.start >= evidence.min_expected_fragment_size)
           ELSE TRUE}

\* lines 646, 651
Cover(reads) ==
    Interval(SetMin({r.start1 : r \in reads} \cup {r.end : r \in reads}),
             SetMax({r.start1 : r \in reads} \cup {r.end : r \in reads}))

\* lines 653-657: the check of the two coverages
CoverageFailure_apart(evidence, event_type, cover1, cover2) ==
    IF Interchromosomal(evidence.break1, evidence.break2) THEN {}
    ELSE IF ~Overlaps(cover1, cover2) /\ event_type # DUP
    THEN {Diagnostic("flanking read coverage overlaps. cannot call by flanking reads",
                     None, cover1, cover2)}
    ELSE {}

CoverageFailure_dup_unchecked(evidence, event_type, cover1, cover2) ==
    IF Interchromosomal(evidence.break1, evidence.break2) THEN {}
    ELSE IF Overlaps(cover1, cover2) /\ event_type # DUP
    THEN {Diagnostic("flanking read coverage overlaps. cannot call by flanking reads",
                     None, cover1, cover2)}
    ELSE {}

CoverageFailure(evidence, event_type, cover1, cover2) ==
    IF Interchromosomal(evidence.break1, evidence.break2) THEN {}
    ELSE IF Overlaps(cover1, cover2) /\ event_type # DUP
    THEN {Diagnostic("flanking read coverage overlaps. cannot call by flanking reads",
                     None, cover1, cover2)}
    ELSE IF event_type = DUP /\ (cover1.start > cover2.start \/ cover2.end < cover1.end)
    THEN {Diagnostic("flanking coverage for duplications must have some distinct positions",
                     None, cover1, cover2)}
    ELSE {}

DupShift(event_type) == IF event_type = DUP THEN 0 ELSE 1

\* lines 665-693: neither breakpoint is given
FlankBothWindows(evidence, event_type, cover1, cover2, strand1, strand2) ==
    LET w1 == call_interval_by_flanking_coverage(
                  cover1, evidence.break1.orient, evidence.max_expected_fragment_size,
                  evidence.read_length)
        w2 == call_interval_by_flanking_coverage(
                  cover2, evidence.break2.orient, evidence.max_expected_fragment_size,
                  evidence.read_length)
        inter == Interchromosomal(evidence.break1, evidence.break2)
    IN IF w1.kind # "ok" THEN w1
       ELSE IF w2.kind # "ok" THEN w2
       ELSE IF ~inter /\ w1.window.start > w2.window.end
       THEN Raised("AssertionError",
                   Diagnostic("flanking window regions are incompatible",
                              None, w1.window, w2.window))
       ELSE LET end1 == IF inter THEN w1.window.end
                        ELSE Min2(Min2(w1.window.end, w2.window.end),
                                  cover2.start - DupShift(event_type))
                start2 == IF inter THEN w2.window.start
                          ELSE Max2(Max2(w1.window.start, w2.window.start),
                                    cover1.end + DupShift(event_type))
            IN [kind |-> "ok",
                break1 |-> Breakpoint(evidence.break1.chr, w1.window.start, end1,
                                      evidence.break1.orient, strand1),
                break2 |-> Breakpoint(evidence.break2.chr, start2, w2.window.end,
                                      evidence.break2.orient, strand2)]

\* lines 695-719: the first breakpoint is given
FlankSecondWindow_untrimmed(evidence, event_type, first, cover1, cover2, strand2) ==
    LET w == call_interval_by_flanking_coverage(
                 cover2, evidence.break2.orient, evidence.max_expected_fragment_size,
                 evidence.read_length)
    IN IF w.kind # "ok" THEN w
       ELSE [kind |-> "ok",
             break1 |-> first,
             break2 |-> Breakpoint(evidence.break2.chr, w.window.start, w.window.end,
                                   evidence.break2.orient, strand2)]

FlankSecondWindow(evidence, event_type, first, cover1, cover2, strand2) ==
    IF \/ first.orient = LEFT /\ cover1.end > first.end
       \/ first.orient = RIGHT /\ cover1.start < first.start
    THEN Raised("AssertionError",
                Diagnostic("input breakpoint is incompatible with flanking coverage",
                           None, cover1, Interval(first.start, first.end)))
    ELSE LET w == call_interval_by_flanking_coverage(
                      cover2, evidence.break2.orient, evidence.max_expected_fragment_size,
                      evidence.read_length)
             inter == Interchromosomal(evidence.break1, evidence.break2)
         IN IF w.kind # "ok" THEN w
            ELSE LET start == IF inter THEN w.window.start
                              ELSE Max2(Max2(w.window.start,
                                             first.start + DupShift(event_type)),
                                        cover1.end + 1)
                 IN IF ~inter /\ (start > w.window.end \/ w.window.end < first.start)
                    THEN Raised("AssertionError",
                                Diagnostic("input breakpoint incompatible with call",
                                           None, Interval(start, w.window.end),
                                           Interval(first.start, first.end)))
                    ELSE [kind |-> "ok",
                          break1 |-> first,
                          break2 |-> Breakpoint(evidence.break2.chr, start, w.window.end,
                                                evidence.break2.orient, strand2)]

\* lines 721-746: the second breakpoint is given
FlankFirstWindow(evidence, event_type, second, cover1, cover2, strand1) ==
    IF \/ second.orient = LEFT /\ cover2.end > second.end
       \/ second.orient = RIGHT /\ cover2.start < second.start
    THEN Raised("AssertionError",
                Diagnostic("input breakpoint is incompatible with flanking coverage",
                           None, cover2, Interval(second.start, second.end)))
    ELSE LET w == call_interval_by_flanking_coverage(
                      cover1, evidence.break1.orient, evidence.max_expected_fragment_size,
                      evidence.read_length)
             inter == Interchromosomal(evidence.break1, evidence.break2)
         IN IF w.kind # "ok" THEN w
            ELSE LET end == IF inter THEN w.window.end
                            ELSE Min2(Min2(w.window.end,
                                           second.end - DupShift(event_type)),
                                      cover2.start - 1)
                 IN IF ~inter /\ (end < w.window.start \/ w.window.start > second.end)
                    THEN Raised("AssertionError",
                                Diagnostic("input breakpoint incompatible with call",
                                           None, Interval(w.window.start, end),
                                           Interval(second.start, second.end)))
                    ELSE [kind |-> "ok",
                          break1 |-> Breakpoint(evidence.break1.chr, w.window.start, end,
                                                evidence.break1.orient, strand1),
                          break2 |-> second]

\* first_breakpoint_called and second_breakpoint_called are sets: {} for None
call_by_flanking_pairs(evidence, event_type, first_breakpoint_called, second_breakpoint_called, consumed_evidence) ==
    LET pairs == FlankingCandidates(evidence, event_type, consumed_evidence)
        cover1_reads == {p[1] : p \in pairs}
        cover2_reads == {p[2] : p \in pairs}
    IN IF Cardinality(pairs) < evidence.min_flanking_pairs_resolution
       THEN Raised("AssertionError",
                   Diagnostic("insufficient coverage to call by flanking reads",
                              event_type, NoInterval, NoInterval))
       ELSE IF pairs = {}
       THEN Raised("ValueError",
                   Diagnostic("min() arg is an empty sequence", None, NoInterval, NoInterval))
       ELSE LET cover1 == Cover(cover1_reads)
                cover2 == Cover(cover2_reads)
                failure == CoverageFailure(evidence, event_type, cover1, cover2)
                strand1 == IF evidence.stranded
                           THEN decide_sequenced_strand(cover1_reads) ELSE NS
                strand2 == IF evidence.stranded
                           THEN decide_sequenced_strand(cover2_reads) ELSE NS
            IN IF failure # {}
               THEN Raised("AssertionError", CHOOSE d \in failure : TRUE)
               ELSE IF first_breakpoint_called = {} /\ second_breakpoint_called = {}
               THEN FlankBothWindows(evidence, event_type, cover1, cover2, strand1, strand2)
               ELSE IF second_breakpoint_called = {}
               THEN FlankSecondWindow(evidence, event_type,
                                      CHOOSE b \in first_breakpoint_called : TRUE,
                                      cover1, cover2, strand2)
               ELSE IF first_breakpoint_called = {}
               THEN FlankFirstWindow(evidence, event_type,
                                     CHOOSE b \in second_breakpoint_called : TRUE,
                                     cover1, cover2, strand1)
               ELSE Raised("ValueError",
                           Diagnostic("cannot input both breakpoints",
                                      None, NoInterval, NoInterval))

-----------------------------------------------------------------------------
(* _call_by_supporting_reads, lines 751-882 *)

\* lines 766-773: the reads of one side by position
PositionBucket(evidence, side, orient, consumed_evidence, pos) ==
    {r \in evidence.split_reads[side] \ consumed_evidence :
        pos \in breakpoint_pos1(r, orient)}

\* lines 776-785: the thresholds a bucket has to meet
BucketKept_above(evidence, bucket) ==
    /\ Cardinality(bucket) > evidence.min_splits_reads_resolution
    /\ ~(Cardinality({r \in bucket : ~r.tgt})
             < evidence.min_non_target_aligned_split_reads)

BucketKept_targeted_counted(evidence, bucket) ==
    /\ ~(Cardinality(bucket) < evidence.min_splits_reads_resolution)
    /\ ~(Cardinality(bucket) < evidence.min_non_target_aligned_split_reads)

BucketKept(evidence, bucket) ==
    /\ ~(Cardinality(bucket) < evidence.min_splits_reads_resolution)
    /\ ~(Cardinality({r \in bucket : ~r.tgt})
             < evidence.min_non_target_aligned_split_reads)

\* the keys left in pos1 (side = 1) or pos2 (side = 2)
PutativePositions(evidence, side, orient, consumed_evidence) ==
    {pos \in UNION {breakpoint_pos1(r, orient) :
                       r \in evidence.split_reads[side] \ consumed_evidence} :
        BucketKept(evidence, PositionBucket(evidence, side, orient, consumed_evidence, pos))}

\* lines 793-801: links and tgt_align are counted over the reads of pos2[second]
Links(bucket1, bucket2) ==
    Cardinality({r \in bucket2 : r.query_name \in {q.query_name : q \in bucket1}})

TgtAlign(bucket1, bucket2) ==
    Cardinality({r \in bucket2 :
        \E q \in bucket1 : q.query_name = r.query_name
                              /\ q.query_sequence = r.query_sequence})

PairingKept_unlinked(evidence, event_type, first, second, bucket1, bucket2) ==
    LET links == Links(bucket1, bucket2)
        tgt_align == TgtAlign(bucket1, bucket2)
        deletion_size == second - first - 1
        max_insert == evidence.read_length - 2 * evidence.min_softclipping
    IN /\ ~(evidence.break1.chr = evidence.break2.chr /\ first >= second)
       /\ IF tgt_align >= evidence.min_double_aligned_to_estimate_insertion_size
          THEN /\ ~(event_type = INS /\ max_insert < deletion_size)
               /\ ~(event_type = DEL /\ deletion_size < max_insert)
          ELSE IF links >= evidence.min_double_aligned_to_estimate_insertion_size
          THEN ~(deletion_size > evidence.max_expected_fragment_size /\ event_type = INS)
          ELSE TRUE

\* lines 790-814: the pairing (first, second) goes on to a call
PairingKept(evidence, event_type, first, second, bucket1, bucket2) ==
    LET links == Links(bucket1, bucket2)
        tgt_align == TgtAlign(bucket1, bucket2)
        deletion_size == second - first - 1
        max_insert == evidence.read_length - 2 * evidence.min_softclipping
    IN /\ ~(evidence.break1.chr = evidence.break2.chr /\ first >= second)
       /\ ~(links < evidence.min_linking_split_reads)
       /\ IF tgt_align >= evidence.min_double_aligned_to_estimate_insertion_size
          THEN /\ ~(event_type = INS /\ max_insert < deletion_size)
               /\ ~(event_type = DEL /\ deletion_size < max_insert)
          ELSE IF links >= evidence.min_double_aligned_to_estimate_insertion_size
          THEN ~(deletion_size > evidence.max_expected_fragment_size /\ event_type = INS)
          ELSE TRUE

\* lines 819-821: tuple(sorted([name, seq, revcomp(seq)]))
SeqKey(read) ==
    [query_name |-> read.query_name,
     seqs |-> {read.query_sequence, reverse_complement(read.query_sequence)}]

\* lines 817-840: the calls of the double aligned reads that fit the event type.
\* The loops stop once two different calls are found, so what is left to decide
\* is whether there is exactly one
ResolvedCalls(event_type, bucket1, bucket2) ==
    LET reads == bucket1 \cup bucket2
        event_types == IF event_type \in {DUP, INS} THEN {event_type, DUP, INS}
                       ELSE {event_type}
    IN {EventKey(c) : c \in
           {c \in UNION {call_paired_read_event(p[1], p[2]) :
                            p \in {p \in reads \X reads :
                                      p[1] # p[2] /\ SeqKey(p[1]) = SeqKey(p[2])}} :
               classify(c.break1, c.break2) \cap event_types # {}}}

\* lines 841-858: the call of one pairing
SplitCall(evidence, event_type, first, second, bucket1, bucket2, available_flanking_pairs) ==
    LET resolved_calls == ResolvedCalls(event_type, bucket1, bucket2)
        c0 == IF Cardinality(resolved_calls) = 1
              THEN LET call == CHOOSE c \in resolved_calls : TRUE
                   IN EventCall(call.break1, call.break2, evidence, event_type,
                                SPLIT, NoContig, call.untemplated_seq)
              ELSE EventCall(
                       Breakpoint(evidence.break1.chr, first, first,
                                  evidence.break1.orient, evidence.break1.strand),
                       Breakpoint(evidence.break2.chr, second, second,
                                  evidence.break2.orient, evidence.break2.strand),
                       evidence, event_type, SPLIT, NoContig, None)
        c1 == add_flanking_support(c0, evidence, available_flanking_pairs, FALSE)
        c2 == IF has_compatible(c1)
              THEN add_flanking_support(c1, evidence, available_flanking_pairs, TRUE)
              ELSE c1
    IN [c2 EXCEPT !.break1_split_reads = @ \cup bucket1,
                  !.break2_split_reads = @ \cup bucket2]

\* lines 787-859: linked_pairings before the flanking call, as a set (the
\* positions are the keys of two dicts)
LinkedPairings(evidence, event_type, consumed_evidence) ==
    LET o1 == evidence.break1.orient
        o2 == evidence.break2.orient
        pos1 == PutativePositions(evidence, 1, o1, consumed_evidence)
        pos2 == PutativePositions(evidence, 2, o2, consumed_evidence)
        available_flanking_pairs ==
            filter_consumed_pairs(evidence.flanking_pairs, consumed_evidence)
    IN {SplitCall(evidence, event_type, fs[1], fs[2],
                  PositionBucket(evidence, 1, o1, consumed_evidence, fs[1]),
                  PositionBucket(evidence, 2, o2, consumed_evidence, fs[2]),
                  available_flanking_pairs) :
           fs \in {fs \in pos1 \X pos2 :
                      PairingKept(evidence, event_type, fs[1], fs[2],
                          PositionBucket(evidence, 1, o1, consumed_evidence, fs[1]),
                          PositionBucket(evidence, 2, o2, consumed_evidence, fs[2]))}}

\* lines 861-876: the flanking call made after the split calls
FlankCall(evidence, event_type, consumed_evidence, first, second) ==
    LET available_flanking_pairs ==
            filter_consumed_pairs(
                filter_consumed_pairs(evidence.flanking_pairs, consumed_evidence),
                consumed_evidence)
        c0 == EventCall(first, second, evidence, event_type, FLANK, NoContig, None)
        c1 == add_flanking_support(c0, evidence, available_flanking_pairs, FALSE)
    IN IF has_compatible(c1)
       THEN add_flanking_support(c1, evidence, available_flanking_pairs, TRUE)
       ELSE c1

\* lines 861-862
ConsumedAfterSplitCalls_unchanged(consumed_evidence, split_calls, evidence) ==
    consumed_evidence
ConsumedAfterSplitCalls(consumed_evidence, split_calls, evidence) ==
    consumed_evidence \cup UnionOfSupport(split_calls, evidence)

call_by_supporting_reads_flank_first(evidence, event_type, consumed_evidence, split_calls) ==
    LET consumed_after == ConsumedAfterSplitCalls(consumed_evidence, split_calls, evidence)
        flank == call_by_flanking_pairs(evidence, event_type, {}, {}, consumed_after)
        bad == {i \in 1..Len(split_calls) : ~split_calls[i].ok}
    IN IF bad # {}
       THEN Raised("ValueError",
                   Diagnostic(split_calls[CHOOSE i \in bad : TRUE].error,
                              event_type, NoInterval, NoInterval))
       ELSE IF flank.kind = "ValueError" THEN flank
       ELSE IF flank.kind = "ok"
       THEN LET call == FlankCall(evidence, event_type, consumed_after,
                                  flank.break1, flank.break2)
            IN IF call.ok THEN [kind |-> "ok", calls |-> <<call>> \o split_calls]
               ELSE Raised("ValueError",
                           Diagnostic(call.error, event_type, NoInterval, NoInterval))
       ELSE IF split_calls = <<>>
       THEN Raised("UserWarning", flank.diag)
       ELSE [kind |-> "ok", calls |-> split_calls]

\* The outcome of the resolver for one order `split_calls` of linked_pairings:
\* the list it returns, the UserWarning it raises or the ValueError that
\* passes through it.  consumed_evidence is the caller's copy
call_by_supporting_reads(evidence, event_type, consumed_evidence, split_calls) ==
    LET consumed_after == ConsumedAfterSplitCalls(consumed_evidence, split_calls, evidence)
        flank == call_by_flanking_pairs(evidence, event_type, {}, {}, consumed_after)
        bad == {i \in 1..Len(split_calls) : ~split_calls[i].ok}
    IN IF bad # {}
       THEN Raised("ValueError",
                   Diagnostic(split_calls[CHOOSE i \in bad : TRUE].error,
                              event_type, NoInterval, NoInterval))
       ELSE IF flank.kind = "ValueError" THEN flank
       ELSE IF flank.kind = "ok"
       THEN LET call == FlankCall(evidence, event_type, consumed_after,
                                  flank.break1, flank.break2)
            IN IF call.ok THEN [kind |-> "ok", calls |-> Append(split_calls, call)]
               ELSE Raised("ValueError",
                           Diagnostic(call.error, event_type, NoInterval, NoInterval))
       ELSE IF split_calls = <<>>
       THEN Raised("UserWarning", flank.diag)
       ELSE [kind |-> "ok", calls |-> split_calls]

-----------------------------------------------------------------------------
(* call_events, lines 543-582 *)

Literal == Diagnostic("insufficient evidence to call events", None, NoInterval, NoInterval)

NoResult == [kind |-> "none", calls |-> <<>>, message |-> {}]
NoRequest == [state |-> "none"]

\* lines 559-562
CallByContigs ==
    /\ pc = "contigs"
    /\ \E contig_calls \in Linearizations(call_by_contigs(ev)) :
          /\ calls' = calls \o contig_calls
          /\ consumed' = consumed \cup UnionOfSupport(contig_calls, ev)
    /\ ev' = EvidenceAfterContigCalls(ev)
    /\ pc' = "spanning"
    /\ UNCHANGED <<ev0, errors, todo, result, req, made, asm>>

\* lines 564-567, and the sorted() of line 569
CallBySpanningReads ==
    /\ pc = "spanning"
    /\ \E spanning_calls \in Orderings(call_by_spanning_reads(ev, consumed)) :
          /\ consumed' = consumed \cup UnionOfSupport(spanning_calls, ev)
          /\ calls' = calls \o spanning_calls
    /\ todo' = SortedTypes(putative_event_types(ev))
    /\ pc' = "types"
    /\ UNCHANGED <<ev, ev0, errors, result, req, made, asm>>

\* lines 571-573: the resolver of one event type starts from a copy of the
\* consumed reads (contig_consumed_evidence), built anew from consumed_evidence
\* for each type, so what the calls of an earlier type consumed is not in it
contig_consumed_evidence_shared(consumed_evidence, call_list, evidence) ==
    consumed_evidence \cup UnionOfSupport(call_list, evidence)
contig_consumed_evidence(consumed_evidence, call_list, evidence) ==
    consumed_evidence

\* lines 569-576: one turn of the loop over the event types
CallBySupportingReads ==
    /\ pc = "types"
    /\ todo # <<>>
    /\ LET copy == contig_consumed_evidence(consumed, calls, ev)
       IN \E split_calls \in Orderings(LinkedPairings(ev, Head(todo), copy)) :
          LET r == call_by_supporting_reads(ev, Head(todo), copy, split_calls)
          IN /\ calls' = IF r.kind = "ok" THEN calls \o r.calls ELSE calls
             /\ errors' = IF r.kind = "UserWarning" THEN errors \cup {r.diag} ELSE errors
             /\ result' = IF r.kind = "ValueError"
                          THEN [kind |-> "ValueError", calls |-> <<>>, message |-> {r.diag}]
                          ELSE result
             /\ pc' = IF r.kind = "ValueError" THEN "done" ELSE pc
    /\ todo' = Tail(todo)
    /\ UNCHANGED <<ev, ev0, consumed, req, made, asm>>

\* lines 578-582.  The message of the first branch is the sorted, ';'-joined
\* list of the set errors, which the set stands for
call_events_outcome_empty_list(call_list, error_set) ==
    [kind |-> "return", calls |-> call_list, message |-> {}]
call_events_outcome_literal(call_list, error_set) ==
    IF call_list = <<>>
    THEN [kind |-> "UserWarning", calls |-> <<>>, message |-> {Literal}]
    ELSE [kind |-> "return", calls |-> call_list, message |-> {}]
call_events_outcome(call_list, error_set) ==
    IF call_list = <<>> /\ error_set # {}
    THEN [kind |-> "UserWarning", calls |-> <<>>, message |-> error_set]
    ELSE IF call_list = <<>>
    THEN [kind |-> "UserWarning", calls |-> <<>>, message |-> {Literal}]
    ELSE [kind |-> "return", calls |-> call_list, message |-> {}]

Return ==
    /\ pc = "types"
    /\ todo = <<>>
    /\ result' = call_events_outcome(calls, errors)
    /\ pc' = "done"
    /\ UNCHANGED <<ev, ev0, consumed, calls, errors, todo, req, made, asm>>

Next == CallByContigs \/ CallBySpanningReads \/ CallBySupportingReads \/ Return

\* the state in which call_events is entered with `evidence`
Entered(evidence) ==
    /\ ev = evidence
    /\ ev0 = evidence
    /\ pc = "contigs"
    /\ consumed = {}
    /\ calls = <<>>
    /\ errors = {}
    /\ todo = <<>>
    /\ result = NoResult
    /\ req = NoRequest
    /\ made = NoRequest
    /\ asm = NoRequest

-----------------------------------------------------------------------------
(* The evidence call_events is run on.  One locus on chromosome 1 with the  *)
(* breakpoints near 1500 and 2000, reads of length 100 and an expected      *)
(* fragment size of 300 to 500.                                             *)

MaxSplitReads == 2
MaxFlankingPairs == 3
MaxSpanningReads == 2

Thresholds(n) ==
    [min_flanking_pairs_resolution |-> n,
     min_splits_reads_resolution |-> n,
     min_spanning_reads_resolution |-> n,
     min_linking_split_reads |-> n,
     min_double_aligned_to_estimate_insertion_size |-> n,
     min_non_target_aligned_split_reads |-> 1,
     contig_aln_min_query_consumption |-> 95,
     read_length |-> 100,
     min_expected_fragment_size |-> 300,
     max_expected_fragment_size |-> 500,
     min_softclipping |-> 6]

Read(id, name, seq, start1, end, clip, frag, otypes, pev, events) ==
    [id |-> id, query_name |-> name, query_sequence |-> seq, chr |-> 1,
     start1 |-> start1, end |-> end, clip |-> clip, tgt |-> FALSE,
     frag |-> frag, otypes |-> otypes, pev |-> pev, events |-> events]

Event(b1, b2, untemplated_seq, qc) ==
    [break1 |-> b1, break2 |-> b2, untemplated_seq |-> untemplated_seq,
     opposing_strands |-> (b1.orient = b2.orient), qc |-> qc]

\* the event types of the other orientation of a read pair
OtherTypes(types) == IF DUP \in types THEN {DEL, INS} ELSE {DUP}

\* a read of length 100 whose clipped end (or, for a flanking read, whose end on
\* the side of the breakpoint) is at pos, for a breakpoint of orientation orient
SpanStart(pos, orient) == IF orient = RIGHT THEN pos ELSE pos - 99
SpanEnd(pos, orient) == IF orient = RIGHT THEN pos + 99 ELSE pos
ClipOf(orient) == IF orient = RIGHT THEN RIGHT ELSE LEFT

Geometries == {<<LEFT, RIGHT>>, <<RIGHT, LEFT>>, <<LEFT, LEFT>>, <<LEFT, NS>>}
LinkModes == {"none", "name", "seq", "seq+call", "revcomp+call"}

\* the event call_paired_read_event finds for the reads at first and second
PairedEvent(geom, first, second) ==
    Event(Breakpoint(1, first, first, geom[1], NS),
          Breakpoint(1, second, second, geom[2], NS), "AT", 100)

\* the split reads of a side: n reads clipped at pos
SplitReads(side, n, pos, geom, other, mode) ==
    {Read(<<"split", side, i>>,
          IF side = 1 \/ mode # "none" THEN <<"q", i>> ELSE <<"m", i>>,
          IF side = 1 \/ mode \in {"seq", "seq+call"} THEN <<"A", "C">>
          ELSE IF mode = "revcomp+call" THEN <<"G", "T">>
          ELSE <<"T", "T">>,
          SpanStart(pos, geom[side]), SpanEnd(pos, geom[side]), ClipOf(geom[side]),
          Interval(200, 700), classify(Breakpoint(1, 1500, 1500, geom[1], NS),
                                       Breakpoint(1, 2000, 2000, geom[2], NS)),
          IF mode \in {"seq+call", "revcomp+call"}
          THEN {PairedEvent(geom, IF side = 1 THEN pos ELSE other,
                                  IF side = 1 THEN other ELSE pos)}
          ELSE {},
          {}) : i \in 1..n}

FlankRead(id, side, shift, geom, frag, otypes) ==
    Read(<<"flank", side, id>>, <<"f", id>>, <<"C", "C">>,
         IF side = 1 THEN SpanStart(IF geom[1] = RIGHT THEN 1501 + shift ELSE 1499 - shift, geom[1])
         ELSE SpanStart(IF geom[2] = RIGHT THEN 2001 + shift ELSE 1999 - shift, geom[2]),
         IF side = 1 THEN SpanEnd(IF geom[1] = RIGHT THEN 1501 + shift ELSE 1499 - shift, geom[1])
         ELSE SpanEnd(IF geom[2] = RIGHT THEN 2001 + shift ELSE 1999 - shift, geom[2]),
         None, frag, otypes, {}, {})

FlankPair(id, shift, geom, frag, otypes) ==
    <<FlankRead(id, 1, shift, geom, frag, otypes), FlankRead(id, 2, shift, geom, frag, otypes)>>

Mirror(orient) == IF orient = LEFT THEN RIGHT ELSE IF orient = RIGHT THEN LEFT ELSE NS
Mirrored(geom) == <<Mirror(geom[1]), Mirror(geom[2])>>

\* the flanking pairs an evidence may hold: the pair of the first split read of
\* side 1, a pair of a large and one of a small fragment, and a pair whose
\* orientation is that of the other event types, on the other sides of the
\* breakpoints
FlankingTable(geom, first, second, mode) ==
    LET types == classify(Breakpoint(1, 1500, 1500, geom[1], NS),
                          Breakpoint(1, 2000, 2000, geom[2], NS))
    IN <<<<CHOOSE r \in SplitReads(1, 1, first, geom, second, mode) : TRUE,
           FlankRead(1, 2, 0, geom, Interval(200, 700), types)>>,
         FlankPair(2, 10, geom, Interval(700, 700), types),
         FlankPair(3, 20, geom, Interval(200, 200), types),
         FlankPair(4, 30, Mirrored(geom), Interval(200, 700), OtherTypes(types))>>

SpanningReads(n, geom) ==
    {Read(<<"span", 1, i>>, <<"s", i>>, <<"G", "G">>, 1471, 1570, None,
          Interval(400, 400), {},
          {}, {Event(Breakpoint(1, 1520, 1520, geom[1], POS),
                     Breakpoint(1, 1540, 1540, geom[2], POS), None, 100)}) : i \in 1..n}

Contigs(present, geom) ==
    IF ~present THEN <<>>
    ELSE <<[id |-> "contig1",
            input_reads |-> {FlankRead(2, 1, 10, geom, Interval(700, 700),
                                classify(Breakpoint(1, 1500, 1500, geom[1], NS),
                                         Breakpoint(1, 2000, 2000, geom[2], NS)))},
            alignments |-> <<[break1 |-> Breakpoint(1, 1500, 1500, geom[1], POS),
                              break2 |-> Breakpoint(1, 2000, 2000, geom[2], POS),
                              untemplated_seq |-> None,
                              is_putative_indel |-> FALSE,
                              net_size_zero |-> FALSE]>>]>>

Evidence(geom, thresholds, bam_stranded, contigs, spanning_reads, split1, split2, flanking_pairs, compatible_flanking_pairs) ==
    [break1 |-> Breakpoint(1, 1450, 1550, geom[1], NS),
     break2 |-> Breakpoint(1, 1950, 2050, geom[2], NS),
     opposing_strands |-> (geom[1] = geom[2]),
     stranded |-> FALSE,
     bam_stranded |-> bam_stranded,
     contigs |-> contigs,
     spanning_reads |-> spanning_reads,
     split_reads |-> <<split1, split2>>,
     flanking_pairs |-> flanking_pairs,
     compatible_flanking_pairs |-> compatible_flanking_pairs]
    @@ thresholds

Parameters ==
    [geom : Geometries, bam_stranded : BOOLEAN, contig : BOOLEAN,
     spanning : 0..MaxSpanningReads, split1 : 0..MaxSplitReads, split2 : 0..MaxSplitReads,
     positions : {<<1500, 2000>>, <<1500, 1580>>}, mode : LinkModes,
     flanking : {sel \in SUBSET (1..4) : Cardinality(sel) <= MaxFlankingPairs}]

EvidenceOf(p, thresholds) ==
    LET table == FlankingTable(p.geom, p.positions[1], p.positions[2], p.mode)
    IN Evidence(p.geom, thresholds, p.bam_stranded, Contigs(p.contig, p.geom),
                SpanningReads(p.spanning, p.geom),
                SplitReads(1, p.split1, p.positions[1], p.geom, p.positions[2], p.mode),
                SplitReads(2, p.split2, p.positions[2], p.geom, p.positions[1], p.mode),
                {table[i] : i \in p.flanking},
                IF p.contig
                THEN {FlankPair(5, 40, p.geom, Interval(200, 700),
                                OtherTypes(classify(Breakpoint(1, 1500, 1500, p.geom[1], NS),
                                                    Breakpoint(1, 2000, 2000, p.geom[2], NS))))}
                ELSE {})

\* The evidences call_events is run on.  An evidence with an unspecified
\* orientation holds flanking pairs only; the bam cache matters only to the calls
\* of a contig; an evidence holds contigs or spanning reads; the two sides hold
\* as many split reads, or side 2 holds none; the way the reads of the two sides
\* are related matters only when both sides hold reads, and the nearer second
\* position only when the relation is by name or by sequence
Inputs ==
    {EvidenceOf(p, Thresholds(2)) : p \in
        {p \in Parameters :
            /\ NS \in {p.geom[1], p.geom[2]}
                  => p.split1 = 0 /\ p.split2 = 0 /\ p.spanning = 0 /\ ~p.contig
            /\ ~p.contig => ~p.bam_stranded
            /\ p.contig => p.spanning = 0
            /\ p.split2 = p.split1 \/ (p.split2 = 0 /\ p.split1 = MaxSplitReads)
            /\ p.split2 = 0 => p.mode = "none" /\ p.positions = <<1500, 2000>>
            /\ p.positions # <<1500, 2000>> => p.mode \in {"name", "seq"}
            /\ (p.contig \/ p.spanning > 0) => p.mode \in {"none", "name"}}}

Init == \E evidence \in Inputs : Entered(evidence)

Spec == Init /\ [][Next]_vars

-----------------------------------------------------------------------------
(* One construction EventCall(b1, b2, source_evidence, event_type, ...)     *)

Requests ==
    [state : {"requested"},
     b1 : {Breakpoint(1, pos, pos, o, POS) : pos \in {1500, 2000}, o \in ORIENT},
     b2 : {Breakpoint(chr, pos, pos, o, POS) :
              chr \in {1, 2}, pos \in {1500, 2000}, o \in ORIENT},
     event_type : SVTYPE,
     call_method : CALL_METHOD,
     contig : {NoContig, "contig1"},
     source_evidence : {[stranded |-> FALSE, bam_stranded |-> FALSE]}]

Construct ==
    /\ req.state = "requested"
    /\ made.state = "none"
    /\ made' = [state |-> "made",
                call |-> EventCall(req.b1, req.b2, req.source_evidence, req.event_type,
                                   req.call_method, req.contig, None)]
    /\ UNCHANGED <<ev, ev0, pc, consumed, calls, errors, todo, result, req, asm>>

NextEventCall == Construct

InitEventCall ==
    /\ req \in Requests
    /\ made = NoRequest
    /\ asm = NoRequest
    /\ ev = NoRequest
    /\ ev0 = NoRequest
    /\ pc = "idle"
    /\ consumed = {}
    /\ calls = <<>>
    /\ errors = {}
    /\ todo = <<>>
    /\ result = NoResult

SpecEventCall == InitEventCall /\ [][NextEventCall]_vars

-----------------------------------------------------------------------------
(* Claims about the EventCall constructor (specification SpecEventCall)     *)

Constructed == made.state = "made"
Dual(t) == IF t = DUP THEN INS ELSE IF t = INS THEN DUP ELSE None
MadeClass == classify(made.call.break1, made.call.break2)
SwapCase == req.event_type \notin MadeClass /\ Dual(req.event_type) \in MadeClass

\* C2: a construction that succeeds has its event type among classify(self) and
\* the compatible type, and a construction whose requested type (after the
\* possible DUP/INS swap) is not among them is rejected and yields no call
C2_TypeIsClassified ==
    Constructed =>
        /\ made.call.ok =>
              made.call.event_type \in (MadeClass \cup {made.call.compatible_type})
        /\ (req.event_type \notin MadeClass /\ Dual(req.event_type) \notin MadeClass)
              => ~made.call.ok

C2_Witness ==
    /\ Constructed
    /\ ~made.call.ok
    /\ made.call.error = "event_type is not compatible with the breakpoint call"

\* C3 as claimed: a call constructed with DUP has compatible type INS, one
\* constructed with INS has DUP, any other has none, for every geometry
C3_Original ==
    (Constructed /\ made.call.ok) =>
        /\ req.event_type = DUP
              => has_compatible(made.call) /\ made.call.compatible_type = INS
        /\ req.event_type = INS => made.call.compatible_type = DUP
        /\ req.event_type \notin {DUP, INS}
              => made.call.compatible_type = None /\ ~has_compatible(made.call)

\* C3 amended: a call constructed with DUP or INS has a compatible type, which is
\* the dual of the requested type unless the constructor swapped the two (the
\* requested type is not in classify(self) and its dual is), and then it is the
\* requested type; a call constructed with any other type has none
C3_CompatibleType ==
    (Constructed /\ made.call.ok) =>
        /\ req.event_type \in {DUP, INS} =>
              /\ has_compatible(made.call)
              /\ made.call.compatible_type =
                     IF SwapCase THEN req.event_type ELSE Dual(req.event_type)
              /\ {made.call.event_type, made.call.compatible_type} = {DUP, INS}
        /\ req.event_type \notin {DUP, INS}
              => made.call.compatible_type = None /\ ~has_compatible(made.call)

C3_Witness ==
    /\ Constructed
    /\ made.call.ok
    /\ req.event_type = DUP
    /\ made.call.compatible_type = DUP

\* C4: when the requested type is not in classify(self) and its dual is, the
\* type check does not reject the call, the stored event type is the dual, which
\* is in classify(self), the stored compatible type is the requested type, and
\* swapping the stored pair once more
\* gives back the requested pair
C4_SwapStoresDual ==
    (Constructed /\ SwapCase) =>
        /\ made.call.error # "event_type is not compatible with the breakpoint call"
        /\ made.call.event_type = Dual(req.event_type)
        /\ made.call.event_type \in MadeClass
        /\ made.call.compatible_type = req.event_type
        /\ SwapTypes(<<made.call.event_type, made.call.compatible_type>>)
               = <<req.event_type, Dual(req.event_type)>>
        /\ SwapTypes(SwapTypes(<<req.event_type, Dual(req.event_type)>>))
               = <<req.event_type, Dual(req.event_type)>>

C4_Witness ==
    /\ Constructed
    /\ SwapCase
    /\ req.event_type = INS
    /\ made.call.event_type = DUP

-----------------------------------------------------------------------------
(* Claims about call_events (specification Spec)                            *)

Done == pc = "done"
Returned == pc = "done" /\ result.kind = "return"
MethodRank(call_method) ==
    IF call_method = CONTIG THEN 1 ELSE IF call_method = SPAN THEN 2
    ELSE IF call_method = SPLIT THEN 3 ELSE 4
SharedSupport(i, j) == support(calls[i], ev0) \cap support(calls[j], ev0)

Unspecific == NS \in {ev0.break1.orient, ev0.break2.orient}
TypesOf(evidence) == putative_event_types(evidence)
\* the recoverable failures of the resolver of event type t on the evidence
RecoverableFailures(t) ==
    {r.diag : r \in {q \in {call_by_supporting_reads(ev, t, consumed, split_calls) :
                               split_calls \in Orderings(LinkedPairings(ev, t, consumed))} :
                        q.kind = "UserWarning"}}

\* C5 as claimed: call_events returns a non-empty list or fails with one combined
\* diagnostic, and a failure inside a resolver, an unusable orientation included,
\* is recorded as a diagnostic and never escapes call_events
C5_Original ==
    Done =>
        /\ result.kind \in {"return", "UserWarning"}
        /\ result.kind = "return" => result.calls # <<>>
        /\ result.kind = "UserWarning" => result.message # {}

\* C5 amended: call_events returns a non-empty list (the diagnostics dropped) or,
\* when no method produced a call, fails with one combined diagnostic, and a
\* resolver failure raised as AssertionError or UserWarning (coverage too small,
\* incompatible windows) is recorded as a diagnostic and the remaining event
\* types are tried; a ValueError of the flanking resolver (an orientation that is
\* not specific) is not caught and escapes call_events
C5_Outcomes ==
    Done =>
        /\ result.kind \in {"return", "UserWarning", "ValueError"}
        /\ result.kind = "return"
              => result.calls = calls /\ calls # <<>> /\ result.message = {}
        /\ result.kind = "UserWarning"
              => /\ calls = <<>>
                 /\ result.message # {}
                 /\ errors # {} => result.message = errors
        /\ result.kind = "ValueError" => Unspecific
        /\ result.kind # "ValueError"
              => /\ todo = <<>>
                 /\ \A t \in TypesOf(ev0) : RecoverableFailures(t) \subseteq errors

C5_Witness ==
    /\ Done
    /\ result.kind = "return"
    /\ errors # {}
    /\ Cardinality(TypesOf(ev0)) > 1

EmptyEvidence ==
    /\ ev0.contigs = <<>>
    /\ ev0.spanning_reads = {}
    /\ ev0.split_reads = <<{}, {}>>
    /\ ev0.flanking_pairs = {}

\* C6 as claimed: on an empty evidence call_events fails with the literal message
\* "insufficient evidence to call events", whatever the putative event types are
C6_Original ==
    (Done /\ EmptyEvidence) =>
        result.kind = "UserWarning" /\ result.message = {Literal}

\* C6 amended: on an empty evidence (min_flanking_pairs_resolution at least 1)
\* call_events fails with the combined diagnostics "insufficient coverage to call
\* <type> by flanking reads" of its putative event types, and with the literal
\* message only when the evidence has no putative event type
C6_EmptyEvidenceDiagnostics ==
    (Done /\ EmptyEvidence) =>
        /\ result.kind = "UserWarning"
        /\ result.calls = <<>>
        /\ result.message =
              IF TypesOf(ev0) = {} THEN {Literal}
              ELSE {Diagnostic("insufficient coverage to call by flanking reads",
                               t, NoInterval, NoInterval) : t \in TypesOf(ev0)}

C6_Witness ==
    /\ Done
    /\ EmptyEvidence
    /\ result.kind = "UserWarning"
    /\ Literal \notin result.message
    /\ Cardinality(result.message) = 2

BlockMethods == {SPLIT, FLANK}

\* C7 as claimed: all CONTIG calls, then all SPAN calls, then the SPLIT calls of
\* every event type, then the FLANK calls: no FLANK call precedes a SPLIT call
C7_Original ==
    Returned =>
        \A i, j \in 1..Len(calls) :
            i < j => MethodRank(calls[i].call_method) <= MethodRank(calls[j].call_method)

\* C7 amended: all CONTIG calls come first, then all SPAN calls, then, for each
\* putative event type in sorted order, the SPLIT calls of that type followed by
\* at most one FLANK call of that type: the FLANK call of one type precedes the
\* SPLIT calls of the types sorted after it
C7_OrderedByMethodThenType ==
    Returned =>
        \A i, j \in 1..Len(calls) :
            i < j =>
                IF calls[i].call_method \in BlockMethods
                       /\ calls[j].call_method \in BlockMethods
                THEN /\ TypeRank(calls[i].event_type) <= TypeRank(calls[j].event_type)
                     /\ calls[i].event_type = calls[j].event_type
                           => calls[i].call_method = SPLIT
                ELSE MethodRank(calls[i].call_method) < MethodRank(calls[j].call_method)
                         \/ calls[i].call_method = calls[j].call_method

C7_Witness ==
    /\ Returned
    /\ \E i, j \in 1..Len(calls) :
          /\ i < j
          /\ calls[i].call_method = FLANK
          /\ calls[j].call_method = SPLIT
    /\ \E i, j \in 1..Len(calls) :
          /\ i < j
          /\ calls[i].call_method \in {CONTIG, SPAN}
          /\ calls[j].call_method \in BlockMethods

\* C8: every support set of every emitted call is a subset of the corresponding
\* collection of the source evidence
C8_SupportWithinEvidence ==
    \A i \in 1..Len(calls) :
        /\ calls[i].spanning_reads \subseteq ev0.spanning_reads
        /\ calls[i].flanking_pairs \subseteq ev0.flanking_pairs
        /\ calls[i].compatible_flanking_pairs \subseteq ev0.compatible_flanking_pairs
        /\ calls[i].break1_split_reads \subseteq ev0.split_reads[1]
        /\ calls[i].break2_split_reads \subseteq ev0.split_reads[2]

\* C9: after call_events returns or fails, the evidence's read collections, its
\* contigs and its breakpoints are what they were before the call
C9_EvidenceUnchanged ==
    Done =>
        /\ ev.spanning_reads = ev0.spanning_reads
        /\ ev.split_reads = ev0.split_reads
        /\ ev.flanking_pairs = ev0.flanking_pairs
        /\ ev.compatible_flanking_pairs = ev0.compatible_flanking_pairs
        /\ ev.contigs = ev0.contigs
        /\ ev.break1 = ev0.break1
        /\ ev.break2 = ev0.break2

-----------------------------------------------------------------------------
(* Scenario S2: a duplication by split reads (specification SpecS2)         *)

S2Count == MaxSplitReads + 1
S2Geometry == <<RIGHT, LEFT>>

S2Parameters ==
    [geom : {S2Geometry}, bam_stranded : {FALSE}, contig : {FALSE}, spanning : {0},
     split1 : {S2Count}, split2 : {S2Count},
     positions : {1500, 2000} \X {1500, 2000}, mode : LinkModes,
     flanking : {sel \in SUBSET (1..4) : Cardinality(sel) <= MaxFlankingPairs}]

InitS2 == \E p \in S2Parameters : Entered(EvidenceOf(p, Thresholds(S2Count)))

SpecS2 == InitS2 /\ [][Next]_vars

NamesLink ==
    Links(ev0.split_reads[1], ev0.split_reads[2]) >= ev0.min_linking_split_reads
SidePositions(first, second) ==
    /\ \A r \in ev0.split_reads[1] : breakpoint_pos1(r, ev0.break1.orient) = {first}
    /\ \A r \in ev0.split_reads[2] : breakpoint_pos1(r, ev0.break2.orient) = {second}
S2Evidence ==
    /\ ev0.break1.orient = RIGHT
    /\ ev0.break2.orient = LEFT
    /\ Cardinality(ev0.split_reads[1]) = S2Count
    /\ Cardinality(ev0.split_reads[2]) = S2Count
    /\ NamesLink
    /\ ev0.flanking_pairs = {}
S2Call(call) ==
    /\ call.event_type = DUP
    /\ call.call_method = SPLIT
    /\ Interval(call.break1.start, call.break1.end) = Interval(1500, 1500)
    /\ Interval(call.break2.start, call.break2.end) = Interval(2000, 2000)
    /\ call.compatible_type = INS

\* C10 as claimed: with the side-1 split reads at 2000 and the side-2 split reads
\* at 1500, linked by their names, exactly one call is emitted: DUP by SPLIT at
\* [1500,1500] and [2000,2000] with compatible type INS
C10_Original ==
    (Done /\ S2Evidence /\ SidePositions(2000, 1500)) =>
        /\ result.kind = "return"
        /\ Len(result.calls) = 1
        /\ S2Call(result.calls[1])

\* C10 amended: with the side-1 split reads at 1500 and the side-2 split reads at
\* 2000, linked by their names, exactly one call is emitted: DUP by SPLIT at
\* [1500,1500] and [2000,2000] with compatible type INS; with the sides at 2000
\* and 1500 the pairing is skipped and no call is emitted
C10_S2 ==
    /\ (Done /\ S2Evidence /\ SidePositions(1500, 2000)) =>
          /\ result.kind = "return"
          /\ Len(result.calls) = 1
          /\ S2Call(result.calls[1])
          /\ result.calls[1].break1_split_reads = ev0.split_reads[1]
          /\ result.calls[1].break2_split_reads = ev0.split_reads[2]
    /\ (Done /\ S2Evidence /\ SidePositions(2000, 1500)) =>
          result.kind = "UserWarning"

C10_Witness ==
    /\ Done
    /\ S2Evidence
    /\ SidePositions(1500, 2000)
    /\ Len(result.calls) = 1
    /\ result.calls[1].untemplated_seq = None

-----------------------------------------------------------------------------
(* Scenario S1 and its neighbours: a locus with the breakpoints at 1000 and *)
(* 2000 that holds flanking pairs only (specification SpecS1)               *)

S1Pairs == MaxFlankingPairs + 2
S1Thresholds ==
    [Thresholds(2) EXCEPT !.min_expected_fragment_size = 350,
                          !.max_expected_fragment_size = 450]
S1Geometries == {<<LEFT, LEFT>>, <<LEFT, RIGHT>>, <<RIGHT, LEFT>>, <<RIGHT, RIGHT>>}
S1Layouts == {"apart", "overlap", "nested", "swapped"}
S1Fragments == {Interval(1100, 1100), Interval(500, 500), Interval(200, 1100),
                Interval(200, 200)}
S1Odd == {"none", "small", "other", "inner", "far"}

\* the alignment of the read (side 1) and of the mate (side 2) of a pair
S1Span(layout, side) ==
    IF layout = "apart" THEN (IF side = 1 THEN Interval(900, 1000) ELSE Interval(1900, 2000))
    ELSE IF layout = "overlap"
    THEN (IF side = 1 THEN Interval(900, 1000) ELSE Interval(950, 1050))
    ELSE IF layout = "nested"
    THEN (IF side = 1 THEN Interval(900, 1000) ELSE Interval(920, 980))
    ELSE IF layout = "inner"
    THEN (IF side = 1 THEN Interval(910, 1010) ELSE Interval(1890, 1990))
    ELSE (IF side = 1 THEN Interval(1900, 2000) ELSE Interval(900, 1000))

S1Read(id, side, layout, frag, otypes, chr) ==
    [Read(<<"flank", side, id>>, <<"f", id>>, <<"C", "C">>,
          S1Span(layout, side).start, S1Span(layout, side).end,
          None, frag, otypes, {}, {}) EXCEPT !.chr = chr]

S1Pair(id, layout, frag, otypes, chr2) ==
    <<S1Read(id, 1, layout, frag, otypes, 1), S1Read(id, 2, layout, frag, otypes, chr2)>>

S1Parameters ==
    [geom : S1Geometries, chr2 : {1, 2}, layout : S1Layouts, frag : S1Fragments,
     n : {0, 1, 2, S1Pairs}, odd : S1Odd]

S1EvidenceOf(p) ==
    LET b1 == Breakpoint(1, 1000, 1000, p.geom[1], POS)
        b2 == Breakpoint(p.chr2, 2000, 2000, p.geom[2], POS)
        types == classify(b1, b2)
        pairs == {S1Pair(i, p.layout, p.frag, types, p.chr2) : i \in 1..p.n}
        odd == IF p.odd = "small"
               THEN {S1Pair(0, "apart", Interval(200, 200), types, p.chr2)}
               ELSE IF p.odd = "other"
               THEN {S1Pair(0, "apart", p.frag, OtherTypes(types), p.chr2)}
               ELSE IF p.odd = "inner"
               THEN {S1Pair(0, "apart", p.frag, OtherTypes(types), p.chr2),
                     S1Pair(S1Pairs + 1, "inner", p.frag, OtherTypes(types), p.chr2)}
               ELSE IF p.odd = "far"
               THEN {S1Pair(0, "apart", p.frag, types, 3 - p.chr2)}
               ELSE {}
    IN [Evidence(p.geom, S1Thresholds, FALSE, <<>>, {}, {}, {}, pairs \cup odd, {})
           EXCEPT !.break1 = b1, !.break2 = b2]

\* an interchromosomal locus holds pairs that lie apart
S1Inputs ==
    {S1EvidenceOf(p) : p \in
        {p \in S1Parameters :
            p.chr2 # 1 => p.layout = "apart" /\ p.odd \in {"none", "far"}}}

InitS1 == \E evidence \in S1Inputs : Entered(evidence)

SpecS1 == InitS1 /\ [][Next]_vars

-----------------------------------------------------------------------------
(* Claims about the flanking pairs (specification SpecS1)                   *)

S1Scenario ==
    /\ ev0.break1 = Breakpoint(1, 1000, 1000, LEFT, POS)
    /\ ev0.break2 = Breakpoint(1, 2000, 2000, LEFT, POS)
    /\ ev0.read_length = 100
    /\ ev0.min_expected_fragment_size = 350
    /\ ev0.max_expected_fragment_size = 450
    /\ Cardinality(ev0.flanking_pairs) = S1Pairs
    /\ \A pair \in ev0.flanking_pairs :
          /\ Interval(pair[1].start1, pair[1].end) = Interval(900, 1000)
          /\ Interval(pair[2].start1, pair[2].end) = Interval(1900, 2000)
          /\ pair[1].chr = 1 /\ pair[2].chr = 1
    /\ ev0.split_reads = <<{}, {}>>
    /\ ev0.spanning_reads = {}
    /\ ev0.contigs = <<>>

\* C11 as claimed: on the evidence of scenario S1 call_events returns exactly one
\* call, of event type DEL, called by FLANK, with break1.start <= 1000 and
\* break2.end >= 2000
C11_Original ==
    (Done /\ S1Scenario) =>
        /\ result.kind = "return"
        /\ Len(result.calls) = 1
        /\ result.calls[1].event_type = DEL
        /\ result.calls[1].call_method = FLANK
        /\ result.calls[1].break1.start <= 1000
        /\ result.calls[1].break2.end >= 2000

\* C11 amended: on the evidence of scenario S1, whose breakpoints are both LEFT,
\* call_events returns exactly one call, of event type INV, called by FLANK, with
\* break1.start <= 1000 and break2.end >= 2000
C11_S1 ==
    (Done /\ S1Scenario) =>
        /\ result.kind = "return"
        /\ Len(result.calls) = 1
        /\ result.calls[1].event_type = INV
        /\ result.calls[1].call_method = FLANK
        /\ result.calls[1].break1.start <= 1000
        /\ result.calls[1].break2.end >= 2000

C11_Witness ==
    /\ Done
    /\ S1Scenario
    /\ Len(result.calls) = 1
    /\ result.calls[1].event_type = INV
    /\ result.calls[1].break1.end > 1000

\* ---------------------------------------------------------------------------
\* The assembler (src/structural_variant/assemble.py).  A sequence is a tuple
\* of nucleotides; a graph is its node set, its edge set and the edge_freq
\* dictionary, which remove_node never prunes.
\* ---------------------------------------------------------------------------

Nucleotides == {"A", "C"}

RangeOf(s) == {s[i] : i \in DOMAIN s}

kmers(s, size) == [i \in 1..(IF Len(s) >= size THEN Len(s) - size + 1 ELSE 0) |-> SubSeq(s, i, i + size - 1)]

KmerEdge(kmer) == <<SubSeq(kmer, 1, Len(kmer) - 1), SubSeq(kmer, 2, Len(kmer))>>

KmerOccurrences(sequences, size) == UNION {{<<i, j>> : j \in DOMAIN kmers(sequences[i], size)} : i \in DOMAIN sequences}

BuildGraph(sequences, size) ==
    LET occ == KmerOccurrences(sequences, size)
        edgeOf(o) == KmerEdge(kmers(sequences[o[1]], size)[o[2]])
        edges == {edgeOf(o) : o \in occ}
    IN  [nodes |-> {e[1] : e \in edges} \cup {e[2] : e \in edges},
         edges |-> edges,
         edge_freq |-> [e \in edges |-> Cardinality({o \in occ : edgeOf(o) = e})],
         removed |-> {}]

out_edges(g, n) == {e \in g.edges : e[1] = n}

in_edges(g, n) == {e \in g.edges : e[2] = n}

out_degree(g, n) == Cardinality(out_edges(g, n))

in_degree(g, n) == Cardinality(in_edges(g, n))

degree(g, n) == in_degree(g, n) + out_degree(g, n)

\* removed records each node taken out of the graph with the degree it had then
remove_node(g, n) == [g EXCEPT !.nodes = @ \ {n}, !.edges = {e \in @ : e[1] # n /\ e[2] # n}, !.removed = @ \cup {<<n, degree(g, n)>>}]

RECURSIVE Descendants(_, _)
Descendants(g, set) ==
    LET more == set \cup {e[2] : e \in {e \in g.edges : e[1] \in set}}
    IN  IF more = set THEN set ELSE Descendants(g, more)

is_directed_acyclic_graph(g) == \A n \in g.nodes : n \notin Descendants(g, {e[2] : e \in out_edges(g, n)})

\* The while loop of trim_low_weight_tails from one start node: follow the
\* tail while its end has one edge and that edge is below min_weight.
RECURSIVE TrimTail(_, _, _)
TrimTail(g, curr, min_weight) ==
    IF degree(g, curr) # 1 THEN g
    ELSE IF out_degree(g, curr) = 1
         THEN LET e == CHOOSE e \in out_edges(g, curr) : TRUE
              IN  IF g.edge_freq[e] < min_weight
                  THEN TrimTail(remove_node(g, curr), e[2], min_weight)
                  ELSE g
         ELSE LET e == CHOOSE e \in in_edges(g, curr) : TRUE
              IN  IF g.edge_freq[e] < min_weight
                  THEN TrimTail(remove_node(g, curr), e[1], min_weight)
                  ELSE g

RECURSIVE TrimTails(_, _, _)
TrimTails(g, order, min_weight) ==
    IF order = <<>> THEN g
    ELSE IF Head(order) \notin g.nodes THEN TrimTails(g, Tail(order), min_weight)
         ELSE TrimTails(TrimTail(g, Head(order), min_weight), Tail(order), min_weight)

\* lines 78-82
RemoveSinglets_kept(g) == g

RemoveSinglets(g) == [g EXCEPT !.nodes = {n \in @ : degree(g, n) # 0}, !.removed = @ \cup {<<n, 0>> : n \in {m \in g.nodes : degree(g, m) = 0}}]

NodeOrders(g) == {o \in [1..Cardinality(g.nodes) -> g.nodes] : RangeOf(o) = g.nodes}

trim_low_weight_tails(g, order, min_weight) == RemoveSinglets(TrimTails(g, order, min_weight))

RECURSIVE Connected(_, _)
Connected(g, set) ==
    LET more == set \cup {e[2] : e \in {e \in g.edges : e[1] \in set}}
                    \cup {e[1] : e \in {e \in g.edges : e[2] \in set}}
    IN  IF more = set THEN set ELSE Connected(g, more)

digraph_connected_components(g) == {Connected(g, {n}) : n \in g.nodes}

Sources(g, component) == {n \in component : degree(g, n) # 0 /\ in_degree(g, n) = 0}

Sinks(g, component) == {n \in component : degree(g, n) # 0 /\ in_degree(g, n) # 0 /\ out_degree(g, n) = 0}

RECURSIVE SimplePathsFrom(_, _, _)
SimplePathsFrom(g, path, sink) ==
    IF path[Len(path)] = sink THEN {path}
    ELSE UNION {SimplePathsFrom(g, Append(path, e[2]), sink) : e \in {e \in out_edges(g, path[Len(path)]) : e[2] \notin RangeOf(path)}}

all_simple_paths(g, source, sink) == SimplePathsFrom(g, <<source>>, sink)

PathString(path) == path[1] \o [i \in 1..(Len(path) - 1) |-> path[i + 1][Len(path[i + 1])]]

RECURSIVE PathScore(_, _)
PathScore(g, path) ==
    IF Len(path) < 2 THEN 0
    ELSE g.edge_freq[<<path[1], path[2]>>] + PathScore(g, Tail(path))

AssemblyPaths(g) == UNION {UNION {all_simple_paths(g, p[1], p[2]) : p \in Sources(g, c) \X Sinks(g, c)} : c \in digraph_connected_components(g)}

PathScores(g) ==
    LET paths == AssemblyPaths(g)
        strings == {PathString(p) : p \in paths}
    IN  [s \in strings |-> SetMax({PathScore(g, p) : p \in {p \in paths : PathString(p) = s}})]

SourceSinkWarning(g) == \E c \in digraph_connected_components(g) : Cardinality(Sources(g, c)) * Cardinality(Sinks(g, c)) > 10

\* an optional numeric argument left at its default (None in the source)
Default == 0

MinSeq(sequences) == SetMin({Len(sequences[i]) : i \in DOMAIN sequences})

KmerSize(kmer_size, min_seq) ==
    IF kmer_size = Default
    THEN LET temp == (min_seq * 3) \div 4
         IN  IF temp < 10 THEN (IF min_seq < 10 THEN min_seq ELSE 10) ELSE temp
    ELSE IF kmer_size > min_seq THEN min_seq ELSE kmer_size

MinContigLength(min_contig_length, min_seq) == IF min_contig_length = Default THEN min_seq + 1 ELSE min_contig_length

\* line 147-148: the exception is built and dropped, nothing is raised
CyclicGraphOutcome(g) == IF ~is_directed_acyclic_graph(g) THEN None ELSE None

ContigKept_any_length(seq, sequences, min_contig_length) == seq \notin RangeOf(sequences)

ContigKept(seq, sequences, min_contig_length) == seq \notin RangeOf(sequences) /\ Len(seq) >= min_contig_length

AssembledContigs(path_scores, sequences, min_contig_length) == {[seq |-> s, score |-> path_scores[s]] : s \in {s \in DOMAIN path_scores : ContigKept(s, sequences, min_contig_length)}}

\* assemble(sequences, kmer_size, min_edge_weight, ..., min_contig_length):
\* lines 124-148, the arguments' defaults and the graph
AssembleBuild ==
    /\ asm.state = "called"
    /\ IF Len(asm.sequences) = 0
       THEN asm' = [asm EXCEPT !.state = "returned", !.result = {}]
       ELSE LET min_seq == MinSeq(asm.sequences)
                size == KmerSize(asm.kmer_size, min_seq)
                g == BuildGraph(asm.sequences, size)
            IN  asm' = [asm EXCEPT !.state = IF CyclicGraphOutcome(g) = None THEN "built" ELSE "raised",
                                   !.raised = CyclicGraphOutcome(g),
                                   !.warned = asm.kmer_size # Default /\ asm.kmer_size > min_seq,
                                   !.size = size,
                                   !.length = MinContigLength(asm.min_contig_length, min_seq),
                                   !.assembly = g]
    /\ UNCHANGED <<ev, ev0, pc, consumed, calls, errors, todo, result, req, made>>

\* line 154, with the nodes visited in the order the node dictionary gives
AssembleTrim ==
    /\ asm.state = "built"
    /\ \E order \in NodeOrders(asm.assembly) :
           asm' = [asm EXCEPT !.state = "trimmed",
                              !.assembly = trim_low_weight_tails(asm.assembly, order, asm.min_edge_weight)]
    /\ UNCHANGED <<ev, ev0, pc, consumed, calls, errors, todo, result, req, made>>

\* lines 155-201: the paths, their scores and the contigs returned
AssembleReturn ==
    /\ asm.state = "trimmed"
    /\ asm' = [asm EXCEPT !.state = "returned",
                          !.path_scores = PathScores(asm.assembly),
                          !.result = AssembledContigs(PathScores(asm.assembly), asm.sequences, asm.length)]
    /\ UNCHANGED <<ev, ev0, pc, consumed, calls, errors, todo, result, req, made>>

NextAssemble == AssembleBuild \/ AssembleTrim \/ AssembleReturn

MaxSequences == 2

\* reads of three or four nucleotides
ReadLengths == {3, 4}

ReadSequences == UNION {[1..n -> Nucleotides] : n \in ReadLengths}

RECURSIVE SeqLeq(_, _)
SeqLeq(s, t) ==
    IF s = <<>> THEN TRUE
    ELSE IF t = <<>> THEN FALSE
    ELSE IF Head(s) = Head(t) THEN SeqLeq(Tail(s), Tail(t))
    ELSE Head(s) = "A"

SequenceLists == UNION {{l \in [1..n -> ReadSequences] : \A i \in 1..(n - 1) : SeqLeq(l[i], l[i + 1])} : n \in 0..MaxSequences}

NoGraph == [nodes |-> {}, edges |-> {}, edge_freq |-> <<>>, removed |-> {}]

AssembleArguments ==
    [state : {"called"},
     sequences : SequenceLists,
     kmer_size : {Default} \cup ReadLengths,
     min_edge_weight : {1, 2},
     min_contig_length : {Default, SetMax(ReadLengths)},
     size : {0},
     length : {0},
     warned : {FALSE},
     raised : {None},
     assembly : {NoGraph},
     path_scores : {<<>>},
     result : {{}}]

Assemblies == {a \in AssembleArguments : a.min_contig_length # Default => a.kmer_size = SetMin(ReadLengths)}

InitAssemble ==
    /\ asm \in Assemblies
    /\ req = NoRequest
    /\ made = NoRequest
    /\ ev = NoRequest
    /\ ev0 = NoRequest
    /\ pc = "idle"
    /\ consumed = {}
    /\ calls = <<>>
    /\ errors = {}
    /\ todo = <<>>
    /\ result = NoResult

SpecAssemble == InitAssemble /\ [][NextAssemble]_vars

\* the graph assemble builds from its arguments, before any trimming
BuiltGraph == BuildGraph(asm.sequences, KmerSize(asm.kmer_size, MinSeq(asm.sequences)))

AssembleReturned == asm.state = "returned"

-----------------------------------------------------------------------------
(* Claims about assemble (specification SpecAssemble)                       *)

\* C12 (as stated): whenever the graph built from the input sequences has a
\* directed cycle, assemble ends by raising a fatal error and returns no
\* contigs.
C12_CyclicInputRejected ==
    (/\ asm.state # "called"
     /\ Len(asm.sequences) > 0
     /\ ~is_directed_acyclic_graph(BuiltGraph))
        => asm.state = "raised" /\ asm.raised # None /\ asm.result = {}

\* C13: no returned contig equals an input sequence, every returned contig is
\* at least min_contig_length long (by default the shortest input's length
\* plus one), and an empty input list gives an empty contig list.
C13_ContigsNewAndLongEnough ==
    AssembleReturned =>
        /\ Len(asm.sequences) = 0 => asm.result = {}
        /\ \A c \in asm.result :
              /\ \A i \in DOMAIN asm.sequences : asm.sequences[i] # c.seq
              /\ Len(c.seq) >= (IF asm.min_contig_length = Default
                                THEN SetMin({Len(asm.sequences[i]) : i \in DOMAIN asm.sequences}) + 1
                                ELSE asm.min_contig_length)

C13_Witness ==
    /\ AssembleReturned
    /\ asm.result # {}
    /\ \E s \in DOMAIN asm.path_scores : s \in RangeOf(asm.sequences)
    /\ \E s \in DOMAIN asm.path_scores : s \notin RangeOf(asm.sequences) /\ Len(s) >= asm.length

\* the pairs add_flanking_support added to a returned call, of either kind
AddedPairs(call) == call.flanking_pairs \cup call.compatible_flanking_pairs

MinFrag(call) == Max2(ev0.min_expected_fragment_size + IntervalDist(call.break1, call.break2), ev0.max_expected_fragment_size)

MaxFrag(call) == IntervalLen(IntervalUnion(call.break1, call.break2)) + ev0.max_expected_fragment_size

ReturnedCalls == IF Done /\ result.kind = "return" THEN RangeOf(result.calls) ELSE {}

\* C14 (as stated): every pair added to a DEL call has its whole fragment-size
\* interval within [min_frag, max_frag]; every pair added to an INS call has
\* fragment.start < min_expected_fragment_size; every added pair has
\* interchromosomal = (read.chr # mate.chr) and an orientation that supports
\* the call's event type.
C14_Original ==
    \A call \in ReturnedCalls : \A pair \in AddedPairs(call) :
        /\ call.event_type = DEL =>
              MinFrag(call) <= pair[1].frag.start /\ pair[1].frag.end <= MaxFrag(call)
        /\ call.event_type = INS => pair[1].frag.start < ev0.min_expected_fragment_size
        /\ Interchromosomal(call.break1, call.break2) = (pair[1].chr # pair[2].chr)
        /\ call.event_type \in pair[1].otypes

\* C14 amended: every pair added to a DEL call has a fragment-size interval that
\* overlaps [min_frag, max_frag] (fragment.end >= min_frag and fragment.start <=
\* max_frag); every pair added to an INS call has fragment.start <
\* min_expected_fragment_size; every added pair has interchromosomal =
\* (read.chr # mate.chr); the orientation of a pair in flanking_pairs supports
\* the call's event type and that of a pair in compatible_flanking_pairs
\* supports the call's compatible type.
C14_FragmentAndOrientation ==
    \A call \in ReturnedCalls : \A pair \in AddedPairs(call) :
        /\ call.event_type = DEL =>
              pair[1].frag.end >= MinFrag(call) /\ pair[1].frag.start <= MaxFrag(call)
        /\ call.event_type = INS => pair[1].frag.start < ev0.min_expected_fragment_size
        /\ Interchromosomal(call.break1, call.break2) = (pair[1].chr # pair[2].chr)
        /\ pair \in call.flanking_pairs => call.event_type \in pair[1].otypes
        /\ pair \in call.compatible_flanking_pairs => call.compatible_type \in pair[1].otypes

C14_Witness ==
    \E call \in ReturnedCalls :
        /\ call.event_type = DEL
        /\ \E pair \in call.flanking_pairs : pair[1].frag.start < MinFrag(call)
        /\ \E pair \in ev0.flanking_pairs :
              pair \notin call.flanking_pairs /\ pair[1].frag.end < MinFrag(call)

\* the resolver of event type t has run on the evidence, which is on one
\* chromosome and has enough candidate pairs for the covers to be computed
CoversChecked(t) ==
    /\ Done
    /\ t \in TypesOf(ev0)
    /\ t \notin RangeOf(todo)
    /\ ~Interchromosomal(ev0.break1, ev0.break2)
    /\ Cardinality(FlankingCandidates(ev0, t, {})) >= ev0.min_flanking_pairs_resolution

Cover1(t) == Cover({p[1] : p \in FlankingCandidates(ev0, t, {})})

Cover2(t) == Cover({p[2] : p \in FlankingCandidates(ev0, t, {})})

OverlapFailure(t) == Diagnostic("flanking read coverage overlaps. cannot call by flanking reads", None, Cover1(t), Cover2(t))

DistinctFailure(t) == Diagnostic("flanking coverage for duplications must have some distinct positions", None, Cover1(t), Cover2(t))

CalledByFlank(t) == \E i \in DOMAIN calls : calls[i].event_type = t /\ calls[i].call_method = FLANK

\* C16 (as stated): on intra-chromosomal evidence, overlapping covers of an event
\* type other than DUP are rejected with the "coverage overlaps" failure; for
\* DUP overlapping covers are allowed, an input with cover1.start > cover2.start
\* or cover2.end < cover1.end is not rejected by the coverage check and an input
\* violating that condition is rejected.
C16_Original ==
    \A t \in SVTYPE : CoversChecked(t) =>
        /\ (t # DUP /\ Overlaps(Cover1(t), Cover2(t)))
              => OverlapFailure(t) \in errors /\ ~CalledByFlank(t)
        /\ t = DUP =>
              /\ OverlapFailure(t) \notin errors
              /\ (Cover1(t).start > Cover2(t).start \/ Cover2(t).end < Cover1(t).end)
                    => DistinctFailure(t) \notin errors
              /\ ~(Cover1(t).start > Cover2(t).start \/ Cover2(t).end < Cover1(t).end)
                    => DistinctFailure(t) \in errors /\ ~CalledByFlank(t)

\* C16 amended: on intra-chromosomal evidence, overlapping covers of an event
\* type other than DUP are rejected with the "coverage overlaps" failure; for
\* DUP overlapping covers are allowed, an input with cover1.start > cover2.start
\* or cover2.end < cover1.end is rejected with the "must have some distinct
\* positions" failure and an input with cover1.start <= cover2.start and
\* cover2.end >= cover1.end is not rejected by the coverage check.
C16_CoverageCheck ==
    \A t \in SVTYPE : CoversChecked(t) =>
        /\ (t # DUP /\ Overlaps(Cover1(t), Cover2(t)))
              => OverlapFailure(t) \in errors /\ ~CalledByFlank(t)
        /\ t = DUP =>
              /\ OverlapFailure(t) \notin errors
              /\ (Cover1(t).start > Cover2(t).start \/ Cover2(t).end < Cover1(t).end)
                    => DistinctFailure(t) \in errors /\ ~CalledByFlank(t)
              /\ ~(Cover1(t).start > Cover2(t).start \/ Cover2(t).end < Cover1(t).end)
                    => DistinctFailure(t) \notin errors

C16_Witness ==
    /\ CoversChecked(DUP)
    /\ Overlaps(Cover1(DUP), Cover2(DUP))
    /\ Cover1(DUP).start < Cover2(DUP).start
    /\ Cover1(DUP).end < Cover2(DUP).end
    /\ CalledByFlank(DUP)

\* the position inequalities of the quadrant (o1, o2) for one pair
QuadrantHolds(o1, o2, call, read, mate) ==
    LET inter == call.break1.chr # call.break2.chr
    IN  CASE o1 = LEFT /\ o2 = LEFT ->
                 read.start1 <= call.break1.end /\ mate.start1 <= call.break2.end
                     /\ (mate.end > call.break1.start \/ inter)
          [] o1 = LEFT /\ o2 = RIGHT ->
                 read.start1 <= call.break1.end /\ mate.end >= call.break2.start
          [] o1 = RIGHT /\ o2 = LEFT ->
                 read.end >= call.break1.start /\ mate.start1 <= call.break2.end
          [] OTHER ->
                 read.end >= call.break1.start /\ mate.end >= call.break2.start
                     /\ (read.end < call.break2.end \/ inter)

Inverted(o) == IF o = LEFT THEN RIGHT ELSE LEFT

\* C15: every pair in a returned call's flanking_pairs satisfies the position
\* inequalities of the quadrant of (break1.orient, break2.orient), every pair in
\* its compatible_flanking_pairs those of the quadrant with LEFT and RIGHT
\* inverted, and a pair of the evidence that fails an inequality is in neither.
C15_QuadrantPositions ==
    \A call \in ReturnedCalls :
        /\ \A pair \in call.flanking_pairs :
              QuadrantHolds(call.break1.orient, call.break2.orient, call, pair[1], pair[2])
        /\ \A pair \in call.compatible_flanking_pairs :
              QuadrantHolds(Inverted(call.break1.orient), Inverted(call.break2.orient),
                            call, pair[1], pair[2])

C15_Witness ==
    \E call \in ReturnedCalls :
        /\ call.flanking_pairs # {}
        /\ call.compatible_flanking_pairs # {}
        /\ \E pair \in ev0.flanking_pairs :
              /\ pair \notin call.compatible_flanking_pairs
              /\ call.compatible_type \in pair[1].otypes
              /\ ~QuadrantHolds(Inverted(call.break1.orient), Inverted(call.break2.orient),
                                call, pair[1], pair[2])

-----------------------------------------------------------------------------
(* A locus that holds split reads only: on each side a bucket of reads at   *)
(* the breakpoint, some of them from a targeted alignment, and on side 1 a  *)
(* read clipped on the other end and a lone read ten bases away             *)
(* (specification SpecSplit)                                                *)

SplitParameters ==
    [geom : {<<LEFT, RIGHT>>, <<RIGHT, LEFT>>},
     n1 : 0..S2Count, tgt1 : 0..S2Count, n2 : 0..S2Count, tgt2 : 0..S2Count,
     unclipped : BOOLEAN, lone : BOOLEAN, min_non_target : {1, 2},
     variant : {"plain", "shared", "unlinked", "swapped"}]

\* variant: the reads of side 2 carry the names of side 1 (plain), all the same
\* name of side 1 while two links are asked for (shared), names of their own
\* (unlinked), or lie before the reads of side 1 (swapped)
SplitEvidenceOf(p) ==
    LET side(i, n, tgt, pos) ==
            {[r EXCEPT !.tgt = (r.id[3] <= tgt),
                       !.query_name = IF i = 2 /\ p.variant = "shared" THEN <<"q", 1>> ELSE @] :
                r \in SplitReads(i, n, pos, p.geom, 0,
                                 IF p.variant = "unlinked" THEN "none" ELSE "name")}
        unclipped == {[r EXCEPT !.id = <<"split", 1, "u">>, !.query_name = <<"u", 1>>,
                                !.clip = Mirror(p.geom[1])] :
                         r \in SplitReads(1, 1, 1500, p.geom, 0, "name")}
        lone == {[r EXCEPT !.id = <<"split", 1, "l">>, !.query_name = <<"q", 2>>] :
                    r \in SplitReads(1, 1, 1490, p.geom, 0, "name")}
        thresholds == [Thresholds(2) EXCEPT
                          !.min_linking_split_reads = IF p.variant = "shared" THEN 2 ELSE 1,
                          !.min_non_target_aligned_split_reads = p.min_non_target]
    IN  Evidence(p.geom, thresholds, FALSE, <<>>, {},
                 side(1, p.n1, p.tgt1, 1500) \cup (IF p.unclipped THEN unclipped ELSE {})
                                             \cup (IF p.lone THEN lone ELSE {}),
                 side(2, p.n2, p.tgt2, IF p.variant = "swapped" THEN 1400 ELSE 2000), {}, {})

SplitInputs ==
    {SplitEvidenceOf(p) : p \in
        {p \in SplitParameters :
            /\ p.tgt1 <= p.n1 /\ p.tgt2 <= p.n2
            /\ p.variant # "plain" =>
                  /\ p.tgt1 = 0 /\ p.tgt2 = 0 /\ p.min_non_target = 1
                  /\ ~p.unclipped /\ ~p.lone}}

InitSplit == \E evidence \in SplitInputs : Entered(evidence)

SpecSplit == InitSplit /\ [][Next]_vars

\* the reads of a side whose breakpoint position for the side's orientation is pos
ReadsAt(side, pos) ==
    LET orient == IF side = 1 THEN ev0.break1.orient ELSE ev0.break2.orient
    IN  {r \in ev0.split_reads[side] :
            /\ r.clip = orient
            /\ (IF orient = LEFT THEN r.end ELSE r.start1) = pos}

MeetsThresholds(bucket) ==
    /\ Cardinality(bucket) >= ev0.min_splits_reads_resolution
    /\ Cardinality({r \in bucket : ~r.tgt}) >= ev0.min_non_target_aligned_split_reads

SplitCallOf(t, bucket1, bucket2) ==
    \E i \in DOMAIN calls :
        /\ calls[i].call_method = SPLIT
        /\ calls[i].event_type = t
        /\ calls[i].break1_split_reads = bucket1
        /\ calls[i].break2_split_reads = bucket2

SplitPositions == {1400, 1490, 1500, 2000}

\* C17: a position bucket of a side goes on to the pairing if and only if it
\* holds at least min_splits_reads_resolution reads and at least
\* min_non_target_aligned_split_reads reads without the targeted-alignment flag,
\* so that the pairing (first, second) of two buckets yields a SPLIT call exactly
\* when both meet the two thresholds and the pairing is kept; a read that is not
\* clipped on the side's end is in no bucket.
C17_BucketThresholds ==
    (Done /\ result.kind # "ValueError") =>
        /\ \A t \in TypesOf(ev0) : \A first \in SplitPositions : \A second \in SplitPositions :
              LET bucket1 == ReadsAt(1, first)
                  bucket2 == ReadsAt(2, second)
              IN  (bucket1 # {} /\ bucket2 # {}) =>
                      (SplitCallOf(t, bucket1, bucket2)
                          <=> /\ MeetsThresholds(bucket1)
                              /\ MeetsThresholds(bucket2)
                              /\ PairingKept(ev0, t, first, second, bucket1, bucket2))
        /\ \A i \in DOMAIN calls : \A r \in calls[i].break1_split_reads :
              calls[i].call_method = SPLIT => r.clip = ev0.break1.orient

C17_Witness ==
    /\ Done
    /\ \E t \in TypesOf(ev0) : SplitCallOf(t, ReadsAt(1, 1500), ReadsAt(2, 2000))
    /\ Cardinality(ReadsAt(1, 1500)) = ev0.min_splits_reads_resolution
    /\ Cardinality({r \in ReadsAt(1, 1500) : ~r.tgt}) = ev0.min_non_target_aligned_split_reads
    /\ ev0.min_non_target_aligned_split_reads = 2
    /\ Cardinality({r \in ReadsAt(2, 2000) : ~r.tgt}) = ev0.min_non_target_aligned_split_reads
    /\ Cardinality(ReadsAt(2, 2000)) > ev0.min_splits_reads_resolution
    /\ ReadsAt(1, 1490) # {}
    /\ \E r \in ev0.split_reads[1] : r.clip # ev0.break1.orient

\* the names carried by reads of both buckets
NamesInBoth(bucket1, bucket2) == {r.query_name : r \in bucket1} \cap {r.query_name : r \in bucket2}

\* the reads of the side-2 bucket whose name a read of the side-1 bucket carries
LinkingReads(bucket1, bucket2) == {r \in bucket2 : \E q \in bucket1 : q.query_name = r.query_name}

\* C19 (as stated): a pairing of buckets yields a SPLIT call only if the number
\* of names carried by reads of both buckets, each name counted once, is at
\* least min_linking_split_reads and, on one chromosome, pos1 < pos2.
C19_Original ==
    (Done /\ result.kind # "ValueError") =>
        \A t \in TypesOf(ev0) : \A first \in SplitPositions : \A second \in SplitPositions :
            SplitCallOf(t, ReadsAt(1, first), ReadsAt(2, second)) =>
                /\ Cardinality(NamesInBoth(ReadsAt(1, first), ReadsAt(2, second)))
                       >= ev0.min_linking_split_reads
                /\ ev0.break1.chr = ev0.break2.chr => first < second

\* C19 amended: a pairing of buckets yields a SPLIT call only if the number of
\* reads of the side-2 bucket whose name is carried by a read of the side-1
\* bucket (a name carried by several side-2 reads counts once for each of them)
\* is at least min_linking_split_reads and, on one chromosome, pos1 < pos2.
C19_LinksCountReads ==
    (Done /\ result.kind # "ValueError") =>
        \A t \in TypesOf(ev0) : \A first \in SplitPositions : \A second \in SplitPositions :
            SplitCallOf(t, ReadsAt(1, first), ReadsAt(2, second)) =>
                /\ Cardinality(LinkingReads(ReadsAt(1, first), ReadsAt(2, second)))
                       >= ev0.min_linking_split_reads
                /\ ev0.break1.chr = ev0.break2.chr => first < second

C19_Witness ==
    /\ Done
    /\ \E t \in TypesOf(ev0) : SplitCallOf(t, ReadsAt(1, 1500), ReadsAt(2, 2000))
    /\ ev0.min_linking_split_reads = 2
    /\ Cardinality(NamesInBoth(ReadsAt(1, 1500), ReadsAt(2, 2000))) = 1
    /\ Cardinality(LinkingReads(ReadsAt(1, 1500), ReadsAt(2, 2000))) = 2

-----------------------------------------------------------------------------
(* Claims about the flank call of an event type (specification Spec)        *)

SplitCallsOf(t) == {i \in DOMAIN calls : calls[i].call_method = SPLIT /\ calls[i].event_type = t}

FlankCallsOf(t) == {i \in DOMAIN calls : calls[i].call_method = FLANK /\ calls[i].event_type = t}

\* the reads the resolver of event type t holds consumed when it turns to the
\* flanking pairs: those of the CONTIG and SPAN calls and of its own SPLIT calls
ConsumedBeforeFlank(t) == consumed \cup UNION {support(calls[i], ev0) : i \in SplitCallsOf(t)}

\* the unconsumed flanking pairs that pass the fragment-size filter for t
PairsForFlank(t) ==
    {pair \in ev0.flanking_pairs :
        /\ pair[1] \notin ConsumedBeforeFlank(t)
        /\ pair[2] \notin ConsumedBeforeFlank(t)
        /\ t = DEL => pair[1].frag.end > ev0.max_expected_fragment_size
        /\ t = INS => pair[1].frag.start < ev0.min_expected_fragment_size}

InsufficientCoverage(t) == Diagnostic("insufficient coverage to call by flanking reads", t, NoInterval, NoInterval)

TypeResolved(t) == Done /\ result.kind # "ValueError" /\ t \in TypesOf(ev0) /\ t \notin RangeOf(todo)

\* C20 (as stated): when fewer than min_flanking_pairs_resolution unconsumed
\* pairs pass the fragment-size filter for an event type, no FLANK call of the
\* type is emitted and the "insufficient coverage" diagnostic is among the
\* diagnostics of call_events, whether or not SPLIT calls of the type were made;
\* a FLANK call of a type is the only one and comes after the type's SPLIT calls.
C20_Original ==
    \A t \in SVTYPE : TypeResolved(t) =>
        /\ Cardinality(PairsForFlank(t)) < ev0.min_flanking_pairs_resolution
              => FlankCallsOf(t) = {} /\ InsufficientCoverage(t) \in errors
        /\ Cardinality(FlankCallsOf(t)) <= 1
        /\ \A i \in SplitCallsOf(t) : \A j \in FlankCallsOf(t) : i < j

\* C20 amended: when fewer than min_flanking_pairs_resolution unconsumed pairs
\* pass the fragment-size filter for an event type, no FLANK call of the type is
\* emitted and the "insufficient coverage" diagnostic is among the diagnostics
\* of call_events exactly when no SPLIT call of the type was made (with SPLIT
\* calls the diagnostic is dropped); a FLANK call of a type is the only one and
\* comes after the type's SPLIT calls.
C20_FlankDiagnostic ==
    \A t \in SVTYPE : TypeResolved(t) =>
        /\ Cardinality(PairsForFlank(t)) < ev0.min_flanking_pairs_resolution
              => /\ FlankCallsOf(t) = {}
                 /\ InsufficientCoverage(t) \in errors <=> SplitCallsOf(t) = {}
        /\ Cardinality(FlankCallsOf(t)) <= 1
        /\ \A i \in SplitCallsOf(t) : \A j \in FlankCallsOf(t) : i < j

C20_Witness ==
    /\ \E t \in SVTYPE :
          /\ TypeResolved(t)
          /\ Cardinality(PairsForFlank(t)) = ev0.min_flanking_pairs_resolution - 1
          /\ SplitCallsOf(t) # {}
          /\ InsufficientCoverage(t) \notin errors
    /\ \E t \in SVTYPE : TypeResolved(t) /\ SplitCallsOf(t) # {} /\ FlankCallsOf(t) # {}

-----------------------------------------------------------------------------
(* EventCall.characterize_repeat_region, lines 277-312.  The reference is a *)
(* tuple of letters indexed from 0 as the source's string is; one run is    *)
(* held in req (the arguments) and made (the locals and the outcome).       *)

\* seq[first:last] of the source, for 0 <= first
Slice(seq, first, last) == SubSeq(seq, first + 1, Min2(last, Len(seq)))

Upper(seq) == [i \in DOMAIN seq |-> IF seq[i] = "a" THEN "A" ELSE IF seq[i] = "c" THEN "C" ELSE seq[i]]

RepeatApplies(event) ==
    \/ event.event_type = INS /\ event.untemplated_seq # <<>>
    \/ event.event_type \in {DEL, DUP} /\ event.untemplated_seq = <<>>

ExpectedSequence(event, reference) ==
    IF event.event_type = DEL THEN Slice(reference, event.break1.start, event.break2.end - 1)
    ELSE IF event.event_type = DUP THEN Slice(reference, event.break1.start - 1, event.break2.end)
    ELSE event.untemplated_seq

Rightmost(event) == IF event.event_type = DUP THEN event.break1.start - 1 ELSE event.break1.start

MaxRepeats == 12

\* lines 283-303: the checks, expected_sequence and rightmost
RepeatBegin ==
    /\ req.state = "repeat"
    /\ made.state = "none"
    /\ made' = IF IntervalLen(req.event.break1) + IntervalLen(req.event.break2) > 2
               THEN [state |-> "raised",
                     error |-> "Cannot characterize a repeat region for a non-specific call"]
               ELSE IF ~RepeatApplies(req.event)
               THEN [state |-> "raised",
                     error |-> "Characterizing repeat regions does not make sense for the given event type"]
               ELSE [state |-> "scanning",
                     expected_sequence |-> ExpectedSequence(req.event, req.reference),
                     rightmost |-> Rightmost(req.event),
                     repeat_count |-> 0]
    /\ UNCHANGED <<ev, ev0, pc, consumed, calls, errors, todo, result, req, asm>>

\* lines 305-312: one test of the loop condition, and one pass of the body
RepeatStep ==
    /\ made.state = "scanning"
    /\ made.repeat_count < MaxRepeats
    /\ LET size == Len(made.expected_sequence)
       IN  IF /\ made.rightmost - size > 0
              /\ Upper(Slice(req.reference, made.rightmost - size, made.rightmost))
                     = made.expected_sequence
           THEN made' = [made EXCEPT !.repeat_count = @ + 1, !.rightmost = @ - size]
           ELSE made' = [made EXCEPT !.state = "returned"]
    /\ UNCHANGED <<ev, ev0, pc, consumed, calls, errors, todo, result, req, asm>>

NextRepeat == RepeatBegin \/ RepeatStep

\* References of 45 letters: seven C, three letters before the run, a run of
\* thirty A at [10:40] in upper, lower or mixed case, five C
References ==
    {[i \in 1..7 |-> "C"] \o before \o run \o [i \in 1..5 |-> "C"] :
        before \in {<<"C", "C", "C">>, <<"C", "A", "A">>, <<"A", "A", "A">>},
        run \in {[i \in 1..30 |-> "A"], [i \in 1..30 |-> "a"],
                 [i \in 1..30 |-> IF i % 2 = 0 THEN "A" ELSE "a"]}}

RepeatEvents ==
    {[event_type |-> t,
      break1 |-> Breakpoint(1, b, b + wide, RIGHT, POS),
      break2 |-> Breakpoint(1, b + d, b + d, LEFT, POS),
      untemplated_seq |-> u] :
        t \in {DEL, DUP, INS, INV}, b \in {11, 13, 16}, wide \in {0, 1}, d \in {1, 2, 4, 7},
        u \in {<<>>, <<"A">>, <<"a">>, <<"A", "A", "A">>}}

InitRepeat ==
    /\ req \in [state : {"repeat"},
                event : {e \in RepeatEvents : e.break1.start # e.break1.end => e.break2.start = 20},
                reference : References]
    /\ made = NoRequest
    /\ asm = NoRequest
    /\ ev = NoRequest
    /\ ev0 = NoRequest
    /\ pc = "idle"
    /\ consumed = {}
    /\ calls = <<>>
    /\ errors = {}
    /\ todo = <<>>
    /\ result = NoResult

SpecRepeat == InitRepeat /\ [][NextRepeat]_vars

\* the number of consecutive copies of unit, compared in upper case, that end
\* at index `rightmost` of the reference
CopiesLeft(reference, unit, rightmost) ==
    Cardinality({n \in 1..Len(reference) :
        \A i \in 1..n :
            /\ rightmost - i * Len(unit) >= 0
            /\ Upper(Slice(reference, rightmost - i * Len(unit), rightmost - (i - 1) * Len(unit)))
                   = Upper(unit)})

ScenarioS3 ==
    /\ req.event.event_type = DEL
    /\ req.event.untemplated_seq = <<>>
    /\ Interval(req.event.break1.start, req.event.break1.end) = Interval(13, 13)
    /\ Interval(req.event.break2.start, req.event.break2.end) = Interval(20, 20)
    /\ \A i \in 10..39 : req.reference[i + 1] = "A"

\* C18 (as stated): on a precise DEL, DUP or simple INS call with a unit that is
\* not empty, characterize_repeat_region returns the number of consecutive
\* copies of the unit that lie immediately to the left of rightmost, reference
\* and unit compared in upper case; in scenario S3 it returns at least 1.
C18_RepeatCount ==
    made.state = "returned" =>
        /\ ExpectedSequence(req.event, req.reference) # <<>> =>
              made.repeat_count = CopiesLeft(req.reference,
                                             ExpectedSequence(req.event, req.reference),
                                             Rightmost(req.event))
        /\ ScenarioS3 => made.repeat_count >= 1

-----------------------------------------------------------------------------
(* The copy of the consumed reads each event type is resolved with          *)

\* the reads in support() of the CONTIG and SPAN calls made so far
ContigSpanSupport == UNION {support(calls[i], ev0) : i \in {j \in DOMAIN calls : calls[j].call_method \in {CONTIG, SPAN}}}

IsTypeCall(call, t) == call.event_type = t /\ call.call_method \in {SPLIT, FLANK}

\* the SPLIT and FLANK calls of event type t, in the order of the list
TypeCallSeq(t) == LET Test(call) == IsTypeCall(call, t) IN SelectSeq(calls, Test)

\* C21: the reads the resolver of one event type consumes are not added to the
\* consumed reads of call_events, which stay the reads in support() of the
\* CONTIG and SPAN calls; the calls of every event type are what its resolver
\* gives when started from exactly those reads, whatever types came before it.
C21_PerTypeCopy ==
    /\ pc \in {"types", "done"} => consumed = ContigSpanSupport
    /\ Done /\ result.kind # "ValueError" =>
          \A t \in TypesOf(ev0) :
              \E split_calls \in Orderings(LinkedPairings(ev, t, ContigSpanSupport)) :
                  LET r == call_by_supporting_reads(ev, t, ContigSpanSupport, split_calls)
                  IN TypeCallSeq(t) = IF r.kind = "ok" THEN r.calls ELSE <<>>

\* a SPLIT call of one type whose reads are not consumed for call_events and a
\* later call of another type made from one of the same reads
C21_Witness ==
    /\ Returned
    /\ \E i, j \in DOMAIN calls :
          /\ i < j
          /\ calls[i].call_method = SPLIT
          /\ calls[j].call_method \in {SPLIT, FLANK}
          /\ calls[i].event_type # calls[j].event_type
          /\ SharedSupport(i, j) # {}
          /\ SharedSupport(i, j) \cap consumed = {}
          /\ \E k \in DOMAIN calls : calls[k].call_method \in {CONTIG, SPAN}

-----------------------------------------------------------------------------
(* call_events on evidence with several contigs and alignments: an          *)
(* alignment is an event, a putative indel, or a putative indel of net size *)
(* 0; the j-th alignment of a contig has its second breakpoint at           *)
(* 2000 + 10 * (j - 1); the contigs after the first hold one alignment       *)

MaxContigs == 2
AlignmentKinds == {"event", "indel", "indel0", "event0"}

ContigParameters ==
    [geom : {<<LEFT, RIGHT>>, <<RIGHT, LEFT>>, <<LEFT, LEFT>>}, bam_stranded : BOOLEAN,
     kinds : UNION {{f \in [1..n -> {<<k>> : k \in AlignmentKinds}
                                      \cup {<<"event", k>> : k \in AlignmentKinds \ {"event0"}}] :
                          \A i \in 2..n : f[i] \in {<<"event">>, <<"indel0">>}} :
                       n \in 0..MaxContigs},
     reads : BOOLEAN]

ContigEvidenceOf(p) ==
    LET types == classify(Breakpoint(1, 1500, 1500, p.geom[1], NS),
                          Breakpoint(1, 2000, 2000, p.geom[2], NS))
        Aln(kind, j) ==
            [break1 |-> Breakpoint(1, 1500, 1500, p.geom[1], POS),
             break2 |-> Breakpoint(1, 2000 + 10 * (j - 1), 2000 + 10 * (j - 1), p.geom[2], POS),
             untemplated_seq |-> None,
             is_putative_indel |-> kind \in {"indel", "indel0"},
             net_size_zero |-> kind \in {"indel0", "event0"}]
        Ctg(i) ==
            [id |-> IF i = 1 THEN "contig1" ELSE IF i = 2 THEN "contig2" ELSE "contig3",
             input_reads |-> {FlankRead(i + 1, 1, 10 * i, p.geom, Interval(700, 700), types)},
             alignments |-> [j \in 1..Len(p.kinds[i]) |-> Aln(p.kinds[i][j], j)]]
    IN Evidence(p.geom, Thresholds(2), p.bam_stranded,
                [i \in 1..Len(p.kinds) |-> Ctg(i)], {},
                SplitReads(1, IF p.reads THEN 1 ELSE 0, 1500, p.geom, 2000, "none"),
                SplitReads(2, IF p.reads THEN 1 ELSE 0, 2000, p.geom, 1500, "none"),
                IF p.reads
                THEN {FlankPair(2, 10, p.geom, Interval(700, 700), types),
                      FlankPair(6, 50, p.geom, Interval(700, 700), types)}
                ELSE {},
                {})

InitContigs == \E p \in ContigParameters : Entered(ContigEvidenceOf(p))

SpecContigs == InitContigs /\ [][Next]_vars

ContigCallsAt == {k \in DOMAIN calls : calls[k].call_method = CONTIG}

\* the (contig, alignment, event type) triples of the evidence whose alignment
\* is not a putative indel of net size 0
ContigTriples ==
    {e \in (DOMAIN ev0.contigs) \X {1, 2} \X SVTYPE :
        /\ e[2] \in DOMAIN ev0.contigs[e[1]].alignments
        /\ LET aln == ev0.contigs[e[1]].alignments[e[2]]
           IN /\ e[3] \in classify(aln.break1, aln.break2)
              /\ ~(aln.is_putative_indel /\ aln.net_size_zero)}

\* the call made from the whole evidence for a triple, whatever other calls exist
CallOfTriple(e) == ContigCall(ev0, ev0.contigs[e[1]], ev0.contigs[e[1]].alignments[e[2]], e[3])

\* C22: the contig method emits exactly one CONTIG call for every contig,
\* alignment and event type of classify(alignment), none for an alignment that
\* is a putative indel of net size 0; each call is the one computed from the
\* whole evidence; afterwards the consumed reads are the union of support() of
\* the contig calls.
C22_ContigCalls ==
    pc # "contigs" =>
        /\ \A e \in ContigTriples :
              Cardinality({k \in ContigCallsAt : calls[k] = CallOfTriple(e)}) = 1
        /\ \A k \in ContigCallsAt : \E e \in ContigTriples : calls[k] = CallOfTriple(e)
        /\ pc = "spanning" =>
              consumed = UNION {support(calls[k], ev0) : k \in ContigCallsAt}

\* two contigs, a skipped alignment, an alignment called for two event types, and
\* two contig calls that share a read
C22_Witness ==
    /\ pc = "spanning"
    /\ Len(ev0.contigs) = 2
    /\ \E i \in DOMAIN ev0.contigs : \E j \in DOMAIN ev0.contigs[i].alignments :
          SkippedAlignment(ev0.contigs[i].alignments[j])
    /\ \E i \in DOMAIN ev0.contigs : \E j \in DOMAIN ev0.contigs[i].alignments :
          /\ ev0.contigs[i].alignments[j].is_putative_indel
          /\ \E k \in ContigCallsAt : calls[k].contig = ev0.contigs[i].id
    /\ \E k, m \in ContigCallsAt :
          /\ k # m
          /\ calls[k].contig # calls[m].contig
          /\ support(calls[k], ev0) \cap support(calls[m], ev0) # {}
    /\ \E k, m \in ContigCallsAt :
          /\ calls[k].contig = calls[m].contig
          /\ calls[k].break2 = calls[m].break2
          /\ calls[k].event_type # calls[m].event_type

-----------------------------------------------------------------------------
(* call_events on evidence with spanning reads: n reads call the event at   *)
(* 1520/1540, the first `low` of them with a query consumption of 90 (the   *)
(* threshold is 95), and `more` reads call the event at 1530/1550; the      *)
(* events have the orientations of the evidence or two equal orientations;  *)
(* a contig, when present, was assembled from the last read of the second   *)
(* group                                                                    *)

SpanningParameters ==
    [geom : {<<LEFT, RIGHT>>, <<RIGHT, LEFT>>, <<LEFT, LEFT>>},
     n : 0..(MaxSpanningReads + 1), low : 0..(MaxSpanningReads + 1), more : 0..MaxSpanningReads,
     same_strands : BOOLEAN, contig : BOOLEAN]

SpanningEvidenceOf(p) ==
    LET egeom == IF p.same_strands THEN p.geom
                 ELSE IF p.geom[1] = p.geom[2] THEN <<LEFT, RIGHT>> ELSE <<LEFT, LEFT>>
        SpanRead(group, i, first, second, qc) ==
            Read(<<"span", group, i>>, <<"s", group, i>>, <<"G", "G">>, 1471, 1570, None,
                 Interval(400, 400), {}, {},
                 {Event(Breakpoint(1, first, first, egeom[1], POS),
                        Breakpoint(1, second, second, egeom[2], POS), None, qc)})
        group1 == {SpanRead(1, i, 1520, 1540, IF i <= p.low THEN 90 ELSE 100) : i \in 1..p.n}
        group2 == {SpanRead(2, i, 1530, 1550, 100) : i \in 1..p.more}
        ctgs == IF ~p.contig THEN <<>>
                ELSE <<[id |-> "contig1",
                        input_reads |-> {SpanRead(2, p.more, 1530, 1550, 100)},
                        alignments |-> <<[break1 |-> Breakpoint(1, 1500, 1500, p.geom[1], POS),
                                          break2 |-> Breakpoint(1, 2000, 2000, p.geom[2], POS),
                                          untemplated_seq |-> None,
                                          is_putative_indel |-> FALSE,
                                          net_size_zero |-> FALSE]>>]>>
    IN Evidence(p.geom, Thresholds(MaxSpanningReads), FALSE, ctgs, group1 \cup group2,
                {}, {}, {}, {})

SpanningInputs ==
    {SpanningEvidenceOf(p) : p \in {q \in SpanningParameters :
                                       /\ q.low <= q.n
                                       /\ q.contig => q.more > 0}}

InitSpanning == \E evidence \in SpanningInputs : Entered(evidence)

SpecSpanning == InitSpanning /\ [][Next]_vars

\* the reads the contig calls consumed
ContigSupport == UNION {support(calls[k], ev0) : k \in ContigCallsAt}

\* the events the unconsumed spanning reads call
CalledEvents == {EventKey(e) : e \in UNION {r.events : r \in ev0.spanning_reads \ ContigSupport}}

\* the unconsumed spanning reads that call the event
ReadsCalling(key) == {r \in ev0.spanning_reads \ ContigSupport : \E e \in r.events : EventKey(e) = key}

\* those of them whose alignment consumes enough of the read
ReadsCounted(key) == {r \in ev0.spanning_reads \ ContigSupport : \E e \in r.events : EventKey(e) = key /\ e.qc >= ev0.contig_aln_min_query_consumption}

SpanCallsOf(key) == {k \in DOMAIN calls : calls[k].call_method = SPAN /\ calls[k].break1.start = key.break1.start /\ calls[k].break2.start = key.break2.start}

SpanTypes(key) == classify(ev0.break1, ev0.break2) \cap classify(key.break1, key.break2)

\* the SPAN calls of the event are one call per event type, made of the reads
SpanCallsAre(key, reads) ==
    /\ \A t \in SpanTypes(key) :
          Cardinality({k \in SpanCallsOf(key) : calls[k].event_type = t}) = 1
    /\ \A k \in SpanCallsOf(key) :
          calls[k].event_type \in SpanTypes(key) /\ calls[k].spanning_reads = reads

SpanningDone == pc \in {"types", "done"}

\* C23 (as stated): every group of unconsumed spanning reads that call one event
\* with at least min_spanning_reads_resolution reads and the opposing_strands of
\* the evidence gives one SPAN call per event type of classify(evidence) and
\* classify(event), a smaller group gives none, and nothing else of a read
\* decides whether it counts toward its group.
C23_Original ==
    SpanningDone =>
        \A key \in CalledEvents :
            IF /\ Cardinality(ReadsCalling(key)) >= ev0.min_spanning_reads_resolution
               /\ key.opposing_strands = ev0.opposing_strands
            THEN SpanCallsAre(key, ReadsCalling(key))
            ELSE SpanCallsOf(key) = {}

\* C23 amended: a read counts toward the group of an event only when the
\* alignment calling the event has a query consumption of at least
\* contig_aln_min_query_consumption; every group with at least
\* min_spanning_reads_resolution such reads and the opposing_strands of the
\* evidence gives one SPAN call per event type of classify(evidence) and
\* classify(event), and every other group gives none.
C23_SpanningGroups ==
    SpanningDone =>
        /\ \A key \in CalledEvents :
              IF /\ Cardinality(ReadsCounted(key)) >= ev0.min_spanning_reads_resolution
                 /\ key.opposing_strands = ev0.opposing_strands
              THEN SpanCallsAre(key, ReadsCounted(key))
              ELSE SpanCallsOf(key) = {}
        /\ \A k \in DOMAIN calls : calls[k].call_method = SPAN =>
              \E key \in CalledEvents : k \in SpanCallsOf(key)

\* a group exactly at the threshold that is called, next to reads of a low query
\* consumption that call the same event, and a group of the threshold size not
\* called because one of its reads is consumed
C23_Witness ==
    /\ SpanningDone
    /\ \E key \in CalledEvents :
          /\ Cardinality(ReadsCounted(key)) = ev0.min_spanning_reads_resolution
          /\ Cardinality(ReadsCalling(key)) > ev0.min_spanning_reads_resolution
          /\ SpanCallsOf(key) # {}
    /\ \E key \in CalledEvents :
          /\ Cardinality(ReadsCounted(key)) = ev0.min_spanning_reads_resolution - 1
          /\ key.opposing_strands = ev0.opposing_strands
          /\ SpanCallsOf(key) = {}
          /\ ContigSupport \cap ev0.spanning_reads # {}

-----------------------------------------------------------------------------
(* One call _call_by_flanking_pairs(evidence, event_type,                   *)
(* first_breakpoint_called, second_breakpoint_called) on evidence of        *)
(* flanking pairs only: the reads of side 1 cover [900,1000], the mates a   *)
(* stretch after it, over it, inside it or before it; a breakpoint that is  *)
(* given is one of a few intervals around the covers                        *)

FlankLayouts == {"near", "far", "overlap", "nested", "before"}

FlankGiven == {Interval(1000, 1000), Interval(1000, 1100), Interval(900, 900), Interval(1250, 1300), Interval(700, 750)}

FlankParameters ==
    [geom : S1Geometries, chr2 : {1, 2}, layout : FlankLayouts, n : {1, MaxFlankingPairs - 1},
     event_type : SVTYPE, first : {NoInterval} \cup FlankGiven, second : {NoInterval} \cup FlankGiven]

FlankRequestOf(p) ==
    LET MateSpan == IF p.layout = "near" THEN Interval(1100, 1200)
                    ELSE IF p.layout = "far" THEN Interval(1900, 2000)
                    ELSE IF p.layout = "overlap" THEN Interval(950, 1050)
                    ELSE IF p.layout = "nested" THEN Interval(920, 980)
                    ELSE Interval(700, 800)
        b1 == Breakpoint(1, 1000, 1000, p.geom[1], POS)
        b2 == Breakpoint(p.chr2, 2000, 2000, p.geom[2], POS)
        Pair(i) ==
            <<Read(<<"flank", 1, i>>, <<"f", i>>, <<"C", "C">>, 900, 1000, None,
                   Interval(200, 1100), classify(b1, b2), {}, {}),
              [Read(<<"flank", 2, i>>, <<"f", i>>, <<"C", "C">>, MateSpan.start, MateSpan.end,
                    None, Interval(200, 1100), classify(b1, b2), {}, {})
                  EXCEPT !.chr = p.chr2]>>
    IN [state |-> "flank",
        evidence |-> [Evidence(p.geom, S1Thresholds, FALSE, <<>>, {}, {}, {},
                               {Pair(i) : i \in 1..p.n}, {})
                         EXCEPT !.break1 = b1, !.break2 = b2],
        event_type |-> p.event_type,
        first |-> IF p.first = NoInterval THEN {}
                  ELSE {Breakpoint(1, p.first.start, p.first.end, p.geom[1], NS)},
        second |-> IF p.second = NoInterval THEN {}
                   ELSE {Breakpoint(p.chr2, p.second.start, p.second.end, p.geom[2], NS)}]

FlankRequests ==
    {FlankRequestOf(p) : p \in
        {q \in FlankParameters :
            /\ q.event_type \in classify(Breakpoint(1, 1000, 1000, q.geom[1], POS),
                                         Breakpoint(q.chr2, 2000, 2000, q.geom[2], POS))
            /\ q.chr2 # 1 => q.layout = "far"
            /\ q.n = 1 => q.first = NoInterval /\ q.layout = "near"}}

CallByFlankingPairs ==
    /\ req.state = "flank"
    /\ made.state = "none"
    /\ made' = [state |-> "returned",
                outcome |-> call_by_flanking_pairs(req.evidence, req.event_type,
                                                   req.first, req.second, {})]
    /\ UNCHANGED <<ev, ev0, pc, consumed, calls, errors, todo, result, req, asm>>

NextFlank == CallByFlankingPairs

InitFlank ==
    /\ req \in FlankRequests
    /\ made = NoRequest
    /\ asm = NoRequest
    /\ ev = NoRequest
    /\ ev0 = NoRequest
    /\ pc = "idle"
    /\ consumed = {}
    /\ calls = <<>>
    /\ errors = {}
    /\ todo = <<>>
    /\ result = NoResult

SpecFlank == InitFlank /\ [][NextFlank]_vars

\* the call has returned a pair of breakpoints for intra-chromosomal evidence
FlankSucceeded == req.state = "flank" /\ made.state = "returned" /\ made.outcome.kind = "ok" /\ req.evidence.break1.chr = req.evidence.break2.chr

RequestCover(side) == Cover({pair[side] : pair \in req.evidence.flanking_pairs})

GivenFirst == CHOOSE b \in req.first : TRUE

GivenSecond == CHOOSE b \in req.second : TRUE

\* C24: with exactly one breakpoint given, a call that succeeds on
\* intra-chromosomal evidence returns the given breakpoint unchanged and a
\* window for the other that is not empty, lies beyond the cover of the given
\* side and (unless the type is DUP) beyond the given breakpoint; with both
\* breakpoints given no pair is returned.
C24_GivenBreakpoint ==
    /\ FlankSucceeded /\ req.first # {} /\ req.second = {} =>
          /\ made.outcome.break1 = GivenFirst
          /\ made.outcome.break2.start <= made.outcome.break2.end
          /\ made.outcome.break2.start > RequestCover(1).end
          /\ req.event_type # DUP => made.outcome.break2.start > made.outcome.break1.start
    /\ FlankSucceeded /\ req.first = {} /\ req.second # {} =>
          /\ made.outcome.break2 = GivenSecond
          /\ made.outcome.break1.start <= made.outcome.break1.end
          /\ made.outcome.break1.end < RequestCover(2).start
          /\ req.event_type # DUP => made.outcome.break1.end < made.outcome.break2.end
    /\ req.state = "flank" /\ made.state = "returned" /\ req.first # {} /\ req.second # {} =>
          made.outcome.kind # "ok"

\* a call with the first breakpoint given that succeeds and whose second window
\* was cut at the cover of side 1
C24_Witness ==
    /\ FlankSucceeded
    /\ req.first # {} /\ req.second = {}
    /\ made.outcome.break2.start = RequestCover(1).end + 1
    /\ made.outcome.break2.start < made.outcome.break2.end

\* C28: with no breakpoint given, a call that succeeds on intra-chromosomal
\* evidence returns two breakpoints with start <= end, for every pair of
\* orientations and every order of the two covers.
C28_WellFormedWindows ==
    FlankSucceeded /\ req.first = {} /\ req.second = {} =>
        /\ made.outcome.break1.start <= made.outcome.break1.end
        /\ made.outcome.break2.start <= made.outcome.break2.end

-----------------------------------------------------------------------------
(* The graph after trim_low_weight_tails (specification SpecAssemble)       *)

Trimmed == asm.state \in {"trimmed", "returned"} /\ Len(asm.sequences) > 0

\* a node of the graph with one edge, which is below min_weight
LowTip(g, n, min_weight) == degree(g, n) = 1 /\ \E e \in out_edges(g, n) \cup in_edges(g, n) : g.edge_freq[e] < min_weight

\* C25: after trim_low_weight_tails(min_weight) no node of the graph has
\* degree 0 and no node has degree 1 with its one edge below min_weight; every
\* node that was removed had degree 0 or 1 when it was removed, and every edge
\* of frequency min_weight or more that is gone has lost an endpoint.
C25_TrimFixedPoint ==
    Trimmed =>
        /\ \A n \in asm.assembly.nodes :
              degree(asm.assembly, n) # 0 /\ ~LowTip(asm.assembly, n, asm.min_edge_weight)
        /\ \A r \in asm.assembly.removed : r[2] <= 1
        /\ {r[1] : r \in asm.assembly.removed} = BuiltGraph.nodes \ asm.assembly.nodes
        /\ \A e \in BuiltGraph.edges \ asm.assembly.edges :
              BuiltGraph.edge_freq[e] >= asm.min_edge_weight
                  => e[1] \notin asm.assembly.nodes \/ e[2] \notin asm.assembly.nodes

\* a graph from which a tail of two nodes was trimmed up to a node that had
\* more than one edge before, and which keeps an edge of the minimum weight
C25_Witness ==
    /\ Trimmed
    /\ Cardinality(asm.assembly.removed) >= 2
    /\ \E n \in asm.assembly.nodes : degree(BuiltGraph, n) > degree(asm.assembly, n)
    /\ \E e \in asm.assembly.edges : asm.assembly.edge_freq[e] >= asm.min_edge_weight
    /\ \E e \in BuiltGraph.edges : BuiltGraph.edge_freq[e] < asm.min_edge_weight

-----------------------------------------------------------------------------
(* Contig.add_mapped_read, assemble.py lines 20-25.  A weight 1 / multimap  *)
(* is the fraction <<1, multimap>>; remapped_reads is a function from reads *)
(* to weights                                                               *)

Weight(multimap) == <<1, multimap>>

\* min() of two weights
MinWeight(a, b) == IF a[1] * b[2] <= b[1] * a[2] THEN a ELSE b

\* dict.get(key, 1)
GetWeight(remapped_reads, key) == IF key \in DOMAIN remapped_reads THEN remapped_reads[key] ELSE <<1, 1>>

SetWeight(remapped_reads, key, weight) == [k \in DOMAIN remapped_reads \cup {key} |-> IF k = key THEN weight ELSE remapped_reads[k]]

add_mapped_read_own_key(remapped_reads, read, multimap) ==
    SetWeight(remapped_reads, read, MinWeight(GetWeight(remapped_reads, read), Weight(multimap)))

add_mapped_read(remapped_reads, read, multimap) ==
    LET rc == reverse_complement(read)
    IN IF rc \in DOMAIN remapped_reads
       THEN SetWeight(remapped_reads, rc, MinWeight(GetWeight(remapped_reads, rc), Weight(multimap)))
       ELSE SetWeight(remapped_reads, read, MinWeight(GetWeight(remapped_reads, read), Weight(multimap)))

MaxMultimap == 3

\* a read, its reverse complement, and a read that is its own reverse complement
RemapReads == {<<"A", "C">>, <<"G", "T">>, <<"A", "T">>}

\* one call contig.add_mapped_read(read, multimap); called keeps, for every
\* read, the values of multimap it was added with
AddMappedRead ==
    /\ asm.state = "contig"
    /\ \E read \in RemapReads, multimap \in 1..MaxMultimap :
          asm' = [asm EXCEPT !.remapped_reads = add_mapped_read(@, read, multimap),
                             !.called[read] = @ \cup {multimap}]
    /\ UNCHANGED <<ev, ev0, pc, consumed, calls, errors, todo, result, req, made>>

NextRemap == AddMappedRead

InitRemap ==
    /\ asm = [state |-> "contig", remapped_reads |-> <<>>, called |-> [r \in RemapReads |-> {}]]
    /\ req = NoRequest
    /\ made = NoRequest
    /\ ev = NoRequest
    /\ ev0 = NoRequest
    /\ pc = "idle"
    /\ consumed = {}
    /\ calls = <<>>
    /\ errors = {}
    /\ todo = <<>>
    /\ result = NoResult

SpecRemap == InitRemap /\ [][NextRemap]_vars

\* the values of multimap of the calls made for the read or its reverse complement
CalledFor(read) == asm.called[read] \cup (IF reverse_complement(read) \in RemapReads THEN asm.called[reverse_complement(read)] ELSE {})

\* C26: remapped_reads never holds a read and its distinct reverse complement
\* as two keys; a read or its reverse complement is a key once it was added;
\* the weight of the slot is the least 1 / multimap of the calls made for the
\* read or its reverse complement, so that no call raises a stored weight.
C26_FoldedSlots ==
    asm.state = "contig" =>
        /\ \A r \in DOMAIN asm.remapped_reads :
              /\ reverse_complement(r) # r => reverse_complement(r) \notin DOMAIN asm.remapped_reads
              /\ CalledFor(r) # {}
              /\ asm.remapped_reads[r] = <<1, SetMax(CalledFor(r))>>
        /\ \A r \in RemapReads :
              CalledFor(r) # {} =>
                  r \in DOMAIN asm.remapped_reads
                      \/ reverse_complement(r) \in DOMAIN asm.remapped_reads

\* a slot that a read and its reverse complement were both added to, the
\* reverse complement first and with the greater weight, and a later call with
\* a greater weight than the stored one
C26_Witness ==
    /\ asm.state = "contig"
    /\ <<"G", "T">> \in DOMAIN asm.remapped_reads
    /\ asm.called[<<"G", "T">>] = {1, MaxMultimap - 1}
    /\ asm.called[<<"A", "C">>] = {MaxMultimap}
    /\ asm.remapped_reads[<<"G", "T">>] = <<1, MaxMultimap>>
    /\ <<"A", "T">> \in DOMAIN asm.remapped_reads

-----------------------------------------------------------------------------
(* The scan of characterize_repeat_region (specification SpecRepeat)        *)

\* C27: for every precise DEL, DUP or INS call that is accepted, a DEL with
\* adjacent breakpoints (an empty unit) included, every pass of the scan
\* makes rightmost smaller, so that the scan ends after fewer passes than the
\* value rightmost starts with.
C27_ScanTerminates ==
    made.state \in {"scanning", "returned"} =>
        /\ made.repeat_count >= 1 => made.rightmost < Rightmost(req.event)
        /\ made.repeat_count < Rightmost(req.event)

-----------------------------------------------------------------------------
(* The flanking pairs of a FLANK call (specification Spec)                  *)

FlankCallsReturned == IF Returned THEN {j \in DOMAIN calls : calls[j].call_method = FLANK} ELSE {}

-----------------------------------------------------------------------------
(* call_events on evidence of split reads that are aligned twice: the reads *)
(* of side 1 are clipped at 1500, those of side 2 at 2000, a read of side 2 *)
(* has the name and the sequence (or its reverse complement) of one of side *)
(* 1, and call_paired_read_event places the breakpoints of the pair at the  *)
(* clipped positions or a few bases away from them                          *)

ResolvedShifts == {0, 5}

ResolvedParameters ==
    [geom : {<<LEFT, RIGHT>>, <<RIGHT, LEFT>>, <<LEFT, LEFT>>}, n : 1..MaxSplitReads,
     mode : {"name", "seq+call", "revcomp+call"}, shift1 : ResolvedShifts, shift2 : ResolvedShifts,
     flanking : BOOLEAN]

ResolvedEvidenceOf(p) ==
    LET Paired(r) == [r EXCEPT !.pev = IF @ = {} THEN {}
                                       ELSE {PairedEvent(p.geom, 1500 - p.shift1, 2000 + p.shift2)}]
    IN Evidence(p.geom, Thresholds(2), FALSE, <<>>, {},
                {Paired(r) : r \in SplitReads(1, p.n, 1500, p.geom, 2000, p.mode)},
                {Paired(r) : r \in SplitReads(2, p.n, 2000, p.geom, 1500, p.mode)},
                IF p.flanking
                THEN {FlankPair(2, 10, p.geom, Interval(700, 700),
                                classify(Breakpoint(1, 1500, 1500, p.geom[1], NS),
                                         Breakpoint(1, 2000, 2000, p.geom[2], NS)))}
                ELSE {},
                {})

InitResolved == \E p \in ResolvedParameters : Entered(ResolvedEvidenceOf(p))

SpecResolved == InitResolved /\ [][Next]_vars

\* the position of the read for a breakpoint of the orientation lies in it
ReadAtBreak(read, break) == \E pos \in breakpoint_pos1(read, break.orient) : break.start <= pos /\ pos <= break.end

\* C30: every read in break1_split_reads of a SPLIT call has its breakpoint
\* position inside break1 and every read in break2_split_reads inside break2,
\* for a call at the positions of the reads and for a call with the
\* breakpoints resolved from a pair of alignments of one read.
C30_SplitReadsInBreaks ==
    \A i \in DOMAIN calls : calls[i].call_method = SPLIT =>
        /\ \A read \in calls[i].break1_split_reads : ReadAtBreak(read, calls[i].break1)
        /\ \A read \in calls[i].break2_split_reads : ReadAtBreak(read, calls[i].break2)

====
